---------------------------- MODULE Spec2Model ----------------------------
(***************************************************************************)
(* A model of the synchronisation engine of app/core/sync.js (class Sync). *)
(*                                                                         *)
(* The module holds these specifications over one set of variables:        *)
(*   SpecStore  - the checkpoint store (load / save / erase), start(), the *)
(*                remote change poller and the windows of handleChanges;   *)
(*   SpecClose  - the same from a running poller, close() called at any    *)
(*                point;                                                   *)
(*   SpecQueue  - the local event queue and its handlers;                  *)
(*   SpecRecon  - the reconciler: metadata cache, path index, parent-info  *)
(*                cache and the local disk;                                *)
(*   SpecSync   - the initial sync: the tree walk and the downloads;       *)
(*   SpecNotify - the status setters, logChange and notifyChanges;         *)
(*   SpecBatch  - one call of getFileInfoBatch;                            *)
(*   SpecRetry  - one call of tryTwice;                                    *)
(*   SpecPoll   - the loop of watchChanges and its polling interval;       *)
(*   SpecWatch  - the poller with calls that throw, and the saves that     *)
(*                start it again;                                          *)
(*   SpecUpdate - onLocalFileUpdated: a local file gets new content;       *)
(*   SpecIgnore - the engine's writes and the registry of the watcher      *)
(*                (the registry as section 4.2 of the specification        *)
(*                describes it);                                           *)
(*   SpecStart  - start() called more than once, its calls failing;        *)
(*   SpecLog    - the changes handleChange counts for the summary.         *)
(* Every asynchronous function is a thread whose program counter sits at   *)
(* one of its await points; a step runs the synchronous code between two   *)
(* awaits.                                                                 *)
(***************************************************************************)
EXTENDS Integers, Sequences, FiniteSets, TLC

\* ------------------------------------------------------------------ bounds
\* Number of changes the remote feed hands to the poller in one behaviour.
MaxChanges == 1
\* Number of changes the remote drive makes to its files after the initial
\* sync (the reconciler applies them in windows).
MaxRemoteSteps == 2
\* Size of one window of concurrently applied changes (the source applies 10
\* at a time, sync.js:348; the window is scaled down).
MaxWindow == 2
\* Number of process restarts (crash or quit, then a new Sync object).
MaxRestarts == 1
\* Number of local events whose handler ends in save() per process run.
MaxLocalSaves == 1
\* Number of watcher events delivered in one behaviour, and the longest
\* queue of tasks that builds up.
MaxEvents == 3
MaxQueue == 2

\* The highest count one type reaches in the summary of the changes, and
\* the number of filesChanged events of one behaviour.
MaxLogged == 2
MaxEmits == 2

\* The number of changes one poll of the feed returns.
MaxPolled == 2

VARIABLES
  \* ---- checkpoint store / controller (SpecStore)
  db,                   \* the persisted checkpoint record (globals.db)
  srv,                  \* number of changes the remote feed held when the
                        \* engine last asked it (the feed only grows)
  fetched,              \* history: changes ever returned by changes.list
  applied,              \* history: changes whose handleChange has completed
  changeToken,          \* this.changeToken (0 is null)
  changesToExecute,     \* this.changesToExecute
  loaded, loading, saving, synced, syncing, closed,
  watchingChanges, handlingRemoteChange,
  hasId,                \* this.id is set
  savedOnce,            \* this.savedTime # 0
  changesSinceSave,     \* this.changesSinceSave
  pc,                   \* await point of every thread
  tchg,                 \* change held by each window task
  snap,                 \* saveObject of each save() in flight
  obj,                  \* load()'s local obj
  restarts, localLeft,
  \* ---- local event queue (SpecQueue)
  queued,               \* this.queued: the event kinds of the queued tasks
  handlingLocalChange,  \* this.handlingLocalChange
  consumer,             \* the loop of queue(): "c_idle" or "c_await"
  cur,                  \* the handler the loop awaits: "none", "run",
                        \* "done" (its promise is resolved) or "failed"
  removing,             \* detached onLocalFileRemoved calls that are inside
                        \* removeFileLocally
  trashing,             \* ... that are inside moveToTrash / permanentlyDelete
  eventsLeft,
  loops,                \* history: the queue() calls that are inside the loop
  started,              \* history: number of tasks the loop has called
  \* ---- reconciler (SpecRecon)
  remote,               \* the files of the remote drive: id -> metadata
  feed,                 \* changes the feed holds and the engine has not fetched
  fileInfo,             \* this.fileInfo: id -> metadata
  paths,                \* this.paths: local path -> id
  parentInfoCache,      \* this.parentInfoCache: id -> metadata
  disk,                 \* the local folder: path -> "none", "dir" or an md5
  bare,                 \* history: paths written without a watcher.ignore
  tk,                   \* the handleChange calls of the current window
  base,                 \* history: the engine's state when the window began
  made,                 \* history: number of changes the remote drive made
  lastAlone,            \* history: the change last applied in a window of its own
  \* ---- initial sync (SpecSync)
  dl,                   \* the downloadFile calls of ParallelMapFlow's window
  tmp,                  \* the temporary files ".<name>.tmp": name -> content
  \* ---- filesChanged notification (SpecNotify)
  lastChanges,          \* this.lastChanges: change type -> count
  emits,                \* history: number of filesChanged events emitted
  \* ---- getFileInfoBatch (SpecBatch)
  fileIds,              \* the ids the call is given
  failing,              \* the ids whose files.get fails, and not with a 404
  results,              \* the Map the call returns: entry[id] is the record,
                        \* null (NoInfo) or NoEntry
  \* ---- tryTwice (SpecRetry)
  fn,                   \* what the invocations of fn do, one after the other
  calls,                \* history: number of invocations of fn
  ret,                  \* where tryTwice stands (at) and what it returned
                        \* or threw (v)
  \* ---- polling interval (SpecPoll)
  pollDelay,            \* the local pollDelay of watchChanges
  poll,                 \* the iteration of the loop: where it stands (at),
                        \* changesCount (fetched), the changes still pending
                        \* (left); history: the changes handleChange was
                        \* called for (handled) and those it reported as a
                        \* change (changed)
  \* ---- poller with failing calls (SpecWatch)
  hc,                   \* the handleChange call of every change and the
                        \* save() after it: where it stands (at) and the
                        \* saveObject of the save (snap)
  win,                  \* `results` of handleChanges: the changes whose
                        \* promises the loop still has to await, in order
  watchers,             \* history: the watchChanges calls that are inside
                        \* the try block
  rejected,             \* history: number of watchChanges calls that threw
  \* ---- local file changed (SpecUpdate)
  upd,                  \* the onLocalFileUpdated call: where it stands (at),
                        \* its path (src), the id it found and the md5 it
                        \* computed; the paths with a change event to come
                        \* (events); history: the cached record when the
                        \* call began (before), the local writes (edits)
  \* ---- ignore registry (SpecIgnore)
  ig,                   \* the downloadFile call: where it stands (at) and
                        \* its record (id); the registry of the watcher
                        \* (tokens) and the events it has not yet seen, per
                        \* path and in order, each the engine's ("own") or
                        \* the user's (evq); history: the user's events the
                        \* watcher dropped (lost), the engine's calls and
                        \* the user's writes so far (calls, edits)
  \* ---- start() (SpecStart)
  sc                    \* the start() calls: where each stands (at) and
                        \* the saveObject of its save() (snap); history:
                        \* this.synced when the call passed the assertion
                        \* (was)

storeVars == <<db, srv, fetched, applied, changeToken, changesToExecute,
               loaded, loading, saving, synced, syncing, closed,
               watchingChanges, handlingRemoteChange, hasId, savedOnce,
               changesSinceSave, pc, tchg, snap, obj, restarts, localLeft>>

queueVars == <<queued, handlingLocalChange, consumer, cur, removing, trashing,
               eventsLeft, loops, started>>

reconVars == <<remote, feed, fileInfo, paths, parentInfoCache, disk, bare, tk,
               base, made, lastAlone, dl, tmp>>

notifyVars == <<lastChanges, emits>>

\* The state of the calls that are examined on their own.
batchVars == <<fileIds, failing, results>>

retryVars == <<fn, calls, ret>>

pollVars == <<pollDelay, poll>>

watchVars == <<hc, win, watchers, rejected>>

\* The variables of the specifications that follow SpecPoll.
updVars == <<upd, ig, sc>>

otherVars == <<watchVars, updVars>>

callVars == <<notifyVars, batchVars, retryVars, pollVars, otherVars>>

vars == <<storeVars, queueVars, reconVars, callVars>>

\* ------------------------------------------------------------ small helpers
Min(a, b) == IF a < b THEN a ELSE b

Range(s) == {s[i] : i \in 1..Len(s)}

SlotNames == <<"w1", "w2", "w3", "w4">>

Slots == {SlotNames[i] : i \in 1..MaxWindow}

Callers == {"load", "poller"}

Threads == {"load", "start", "poller", "local", "erase"} \cup Slots

\* ------------------------------------------------------- checkpoint record
NoDoc == [exists |-> FALSE, written |-> FALSE, changeToken |-> 0,
          changesToExecute |-> <<>>, synced |-> FALSE, applied |-> {}]

\* db.insert({type, accountId}): a record without any of the toSave fields.
InsertedDoc == [NoDoc EXCEPT !.exists = TRUE]

\* saveObject: the toSave fields copied from the object (applied is the
\* history of the changes the copied fileInfo / onLocalDrive reflect).
SaveObject == [exists |-> TRUE, written |-> TRUE, changeToken |-> changeToken,
               changesToExecute |-> changesToExecute, synced |-> synced,
               applied |-> applied]

\* A guard that forgets the saving flag.
BusyLoadingOnly == loading

\* The test `this.loading || this.saving` of load, save and erase.
Busy == loading \/ saving

\* Where a thread continues when its save() call returns.
AfterSave(t) ==
  CASE t = "load"   -> "l_post"
    [] t = "poller" -> "p_check"
    [] t = "start"  -> "s_done"
    [] t = "local"  -> "q_idle"
    [] OTHER        -> "t_done"

\* Where the caller of handleChanges continues when it returns.
AfterHandleChanges(t) == IF t = "load" THEN "l_post" ELSE "p_check"

AwaitWindow(t) == IF t = "load" THEN "l_await" ELSE "p_await"

\* this.watchChanges() called from load or save: past finishLoading, the
\* first caller that finds watchingChanges false becomes the poller loop.
WatchChangesCall(pcBase) ==
  IF watchingChanges
    THEN /\ pc' = pcBase
         /\ UNCHANGED watchingChanges
    ELSE /\ watchingChanges' = TRUE
         /\ pc' = [pcBase EXCEPT !["poller"] =
                     IF changeToken = 0 THEN "p_token" ELSE "p_check"]

\* ============================================== reconciler: data and disk
\* The remote ids of the model: the root folder, one folder, two files.
Ids == {"R", "F", "a", "b"}

rootId == "R"

Names == {"x", "y"}

\* Local paths, relative to this.folder: <<>> is the folder itself.
AllPaths ==
  {<<>>} \cup {<<n>> : n \in Names} \cup {<<n, k>> : n, k \in Names}

\* "No such entry" of fileInfo, parentInfoCache and the remote drive (null).
NoInfo == [id |-> "none", name |-> "x", parents |-> <<>>, folder |-> FALSE,
           md5 |-> "", mtime |-> 0, size |-> FALSE, trashed |-> FALSE]

\* `id in this.fileInfo`, `this.parentInfoCache.has(id)`.
Has(f, id) == f[id].id # "none"

RootInfo == [NoInfo EXCEPT !.id = rootId, !.folder = TRUE]

\* The engine's state as one value: the operators below take and return it.
\* err is set when a filesystem or remote call throws.
Engine ==
  [fileInfo |-> fileInfo, paths |-> paths, pic |-> parentInfoCache,
   disk |-> disk, bare |-> bare, err |-> FALSE]

IsPrefix(p, q) == Len(p) <= Len(q) /\ SubSeq(q, 1, Len(p)) = p

Prefixes(p) == {SubSeq(p, 1, k) : k \in 0..Len(p)}

\* path.dirname
Dirname(p) == SubSeq(p, 1, Len(p) - 1)

IsFile(v) == v \notin {"none", "dir"}

\* mkdirp(p): creates p and its missing ancestors; ign is the set of paths
\* watcher.ignore was called for just before.
Mkdirp(st, p, ign) ==
  IF st.err THEN st
  ELSE IF \E q \in Prefixes(p) : IsFile(st.disk[q])
    THEN [st EXCEPT !.err = TRUE]
    ELSE LET created == {q \in Prefixes(p) : st.disk[q] = "none"} IN
         [st EXCEPT !.disk = [q \in AllPaths |->
                                IF q \in created THEN "dir" ELSE st.disk[q]],
                    !.bare = @ \cup (created \ ign)]

\* fs.remove(p): p and everything below it.
FsRemove(st, p, ign) ==
  IF st.err THEN st
  ELSE [st EXCEPT !.disk = [q \in AllPaths |->
                              IF IsPrefix(p, q) THEN "none" ELSE st.disk[q]],
                  !.bare = @ \cup (IF st.disk[p] = "none" THEN {} ELSE {p} \ ign)]

\* fs.rename(src, dst): moves src and everything below it; a file replaces
\* a file, every other occupied destination is an error.
FsRename(st, src, dst, ign) ==
  IF st.err THEN st
  ELSE IF \/ st.disk[src] = "none"
          \/ st.disk[dst] = "dir"
          \/ (st.disk[dst] # "none" /\ st.disk[src] = "dir")
    THEN [st EXCEPT !.err = TRUE]
    ELSE LET from(q) == src \o SubSeq(q, Len(dst) + 1, Len(q)) IN
         [st EXCEPT
            !.disk = [q \in AllPaths |->
                        IF IsPrefix(dst, q)
                          THEN (IF from(q) \in AllPaths
                                  THEN st.disk[from(q)] ELSE "none")
                        ELSE IF IsPrefix(src, q) THEN "none"
                        ELSE st.disk[q]],
            !.bare = @ \cup ({src, dst} \ ign)]

\* fs.copy(src, dst) of a file.
FsCopy(st, src, dst, ign) ==
  IF st.err THEN st
  ELSE IF st.disk[src] = "none" \/ st.disk[dst] = "dir"
    THEN [st EXCEPT !.err = TRUE]
    ELSE [st EXCEPT !.disk[dst] = st.disk[src],
                    !.bare = @ \cup ({dst} \ ign)]

\* The end of a download: the temporary file is renamed onto savePath.
FsWrite(st, p, content, ign) ==
  IF st.err THEN st
  ELSE IF st.disk[p] = "dir"
    THEN [st EXCEPT !.err = TRUE]
    ELSE [st EXCEPT !.disk[p] = content,
                    !.bare = @ \cup ({p} \ ign)]

\* ===================================== reconciler: cache and path index
\* (An operator that uses the result of a call more than once hands it to a
\* second operator as an argument.)
\* The recursion of getPaths over the parents is as deep as the tree.
Fuel == Cardinality(Ids) + 1

RECURSIVE GetPaths(_, _, _)
RECURSIVE PathsViaParents(_, _, _, _)
RECURSIVE FetchAll(_, _, _)
RECURSIVE GetFileInfo(_, _, _)
RECURSIVE StoreFileInfo(_, _, _)

\* _needsParentFetch
NeedsParentFetch(st, parentId) ==
  ~Has(st.pic, parentId) /\ ~Has(st.fileInfo, parentId)

\* getFileInfo(fileId): the cached record, or the remote one, which is
\* stored (storeFileInfo); null for a 404.  Returns [st, info].
GetFileInfo(st, fileId, fuel) ==
  IF Has(st.fileInfo, fileId)
    THEN [st |-> st, info |-> st.fileInfo[fileId]]
  ELSE IF ~Has(remote, fileId) \/ fuel = 0
    THEN [st |-> st, info |-> NoInfo]
  ELSE StoreFileInfo(st, remote[fileId], fuel - 1)

Prepend(info, r) == [st |-> r.st, got |-> <<info>> \o r.got]

FetchRest(g, ids, fuel) == Prepend(g.info, FetchAll(g.st, ids, fuel))

\* getFileInfoBatch(ids): one getFileInfo per id that is not cached.
\* Returns [st, got]: got[i] is the record fetched for ids[i] (or null).
FetchAll(st, ids, fuel) ==
  IF ids = <<>> THEN [st |-> st, got |-> <<>>]
  ELSE FetchRest(GetFileInfo(st, Head(ids), fuel), Tail(ids), fuel)

\* getPaths: `if (parentInfo) this.parentInfoCache.set(parent, parentInfo)`
\* after the fallback fetch g.
Cached(g, parent) ==
  [st |-> IF g.info.id # "none"
            THEN [g.st EXCEPT !.pic[parent] = g.info] ELSE g.st,
   info |-> g.info]

\* getPaths: the parentInfo of one parent: from the parent-info cache, from
\* fileInfo (and then cached), or fetched.  Returns [st, info].
ParentInfo(st, parent, fuel) ==
  IF Has(st.pic, parent)
    THEN [st |-> st, info |-> st.pic[parent]]
  ELSE IF Has(st.fileInfo, parent)
    THEN [st |-> [st EXCEPT !.pic[parent] = st.fileInfo[parent]],
          info |-> st.fileInfo[parent]]
  ELSE Cached(GetFileInfo(st, parent, fuel), parent)

\* path.join(parentPath, fileInfo.name) for every path of the parent.
Joined(upRet, name, rest) ==
  [st |-> rest.st,
   ret |-> [k \in 1..Len(upRet) |-> Append(upRet[k], name)] \o rest.ret]

ViaRest(up, info, i, fuel) ==
  Joined(up.ret, info.name, PathsViaParents(up.st, info, i + 1, fuel))

ViaParent(found, info, i, fuel) ==
  ViaRest(GetPaths(found.st, found.info, fuel - 1), info, i, fuel)

\* A loop that stops after the first parent.
PathsViaFirstParent(st, info, i, fuel) ==
  IF i > Min(1, Len(info.parents)) THEN [st |-> st, ret |-> <<>>]
  ELSE ViaParent(ParentInfo(st, info.parents[i], fuel), info, i, fuel)

\* The loop `for (let parent of fileInfo.parents)` of getPaths from the
\* i-th parent on.  Returns [st, ret].
PathsViaParents(st, info, i, fuel) ==
  IF i > Len(info.parents) THEN [st |-> st, ret |-> <<>>]
  ELSE ViaParent(ParentInfo(st, info.parents[i], fuel), info, i, fuel)

\* getPaths: parentsToFetch
ToFetch(st, info) ==
  SelectSeq(info.parents, LAMBDA p : NeedsParentFetch(st, p))

\* getPaths: batchResults.forEach sets the parent-info cache.
WithFetched(f, toFetch) ==
  [f.st EXCEPT !.pic =
     [id \in Ids |->
        IF \E k \in 1..Len(toFetch) : toFetch[k] = id /\ f.got[k].id # "none"
          THEN f.got[CHOOSE k \in 1..Len(toFetch) : toFetch[k] = id]
          ELSE f.st.pic[id]]]

\* getPaths(fileInfo).  Returns [st, ret]: the paths, and the state with the
\* parent-info cache (and whatever a fetch stored) updated.
GetPaths(st, info, fuel) ==
  IF info.id = "none" \/ fuel = 0 THEN [st |-> st, ret |-> <<>>]
  ELSE IF info.id = rootId THEN [st |-> st, ret |-> << <<>> >>]
  ELSE PathsViaParents(
         WithFetched(FetchAll(st, ToFetch(st, info), fuel), ToFetch(st, info)),
         info, 1, fuel)

\* computePaths(info): `this.paths[path] = info.id` for the paths r.ret.
Indexed(r, id) ==
  [r.st EXCEPT !.paths =
     [q \in AllPaths |->
        IF \E k \in 1..Len(r.ret) : r.ret[k] = q THEN id ELSE r.st.paths[q]]]

\* storeFileInfo past computePaths: the cache entries of the parents are
\* dropped and the record is stored.
Stored(r, info) ==
  [st |-> [Indexed(r, info.id) EXCEPT
             !.pic = [id \in Ids |->
                        IF \E k \in 1..Len(info.parents) : info.parents[k] = id
                          THEN NoInfo ELSE @[id]],
             !.fileInfo = [@ EXCEPT ![info.id] = info]],
   info |-> info]

\* storeFileInfo(info)
StoreFileInfo(st, info, fuel) == Stored(GetPaths(st, info, fuel), info)

RECURSIVE ComputeEach(_, _)
ComputeEach(st, ids) ==
  IF ids = <<>> THEN st
  ELSE ComputeEach(
         IF Has(st.fileInfo, Head(ids))
           THEN Indexed(GetPaths(st, st.fileInfo[Head(ids)], Fuel), Head(ids))
           ELSE st,
         Tail(ids))

\* computePaths() without argument: computePaths(info) for every record.
ComputePaths(st) == ComputeEach(st, <<"R", "F", "a", "b">>)

\* ============================================ reconciler: handleChange
\* fs.access(p) succeeds.
Exists(st, p) == p \in AllPaths /\ st.disk[p] # "none"

OrRemoved(there, r) == [st |-> r.st, ret |-> there \/ r.ret]

RECURSIVE RemoveEach(_, _)
\* The loop of removeFileLocally: every path that exists is ignored, then
\* removed.  Returns [st, ret]: ret is `removed`.
RemoveEach(st, ps) ==
  IF ps = <<>> \/ st.err THEN [st |-> st, ret |-> FALSE]
  ELSE OrRemoved(Exists(st, Head(ps)),
                 RemoveEach(IF Exists(st, Head(ps))
                              THEN FsRemove(st, Head(ps), {Head(ps)})
                              ELSE st,
                            Tail(ps)))

\* removeFileLocally past getPaths (r): the record and its paths leave the
\* cache and the index, then the paths are removed from the disk.
Removed(r, info) ==
  RemoveEach(
    [r.st EXCEPT
       !.fileInfo = [@ EXCEPT ![info.id] = NoInfo],
       !.paths = [q \in AllPaths |->
                    IF \E k \in 1..Len(r.ret) : r.ret[k] = q
                      THEN "none" ELSE @[q]]],
    r.ret)

\* removeFileLocally past its first test, info being this.fileInfo[fileId].
RemoveRest(st, info) == Removed(GetPaths(st, info, Fuel), info)

RemoveFileLocally(st, fileId) ==
  IF ~Has(st.fileInfo, fileId) THEN [st |-> st, ret |-> FALSE]
  ELSE RemoveRest(st, st.fileInfo[fileId])

ShouldIgnoreFile(info) ==
  IF info.id = rootId THEN TRUE
  ELSE IF info.folder THEN FALSE
  ELSE ~info.size

RECURSIVE MkdirEach(_, _, _)
\* mkdirp for each path of ps: of the path itself after watcher.ignore
\* (own), or of its dirname without one.
MkdirEach(st, ps, own) ==
  IF ps = <<>> THEN st
  ELSE MkdirEach(IF own THEN Mkdirp(st, Head(ps), {Head(ps)})
                 ELSE Mkdirp(st, Dirname(Head(ps)), {}),
                 Tail(ps), own)

RECURSIVE CopyEach(_, _, _)
\* fs.copy(src, p) for each p of ps, each after watcher.ignore(p).
CopyEach(st, src, ps) ==
  IF ps = <<>> THEN st
  ELSE CopyEach(FsCopy(st, src, Head(ps), {Head(ps)}), src, Tail(ps))

\* downloadFile past mkdirp (dirs): unless savePath holds the content
\* already, the remote content is downloaded and renamed onto savePath,
\* for which watcher.ignore was called; a file the remote no longer has
\* makes the download throw.
Fetched(dirs, savePath, info) ==
  IF ~dirs.err /\ dirs.disk[savePath] = info.md5 THEN dirs
  ELSE IF ~Has(remote, info.id) THEN [dirs EXCEPT !.err = TRUE]
  ELSE FsWrite(dirs, savePath, remote[info.id].md5, {savePath})

\* downloadFile past getPaths (r).
Download(r, info) ==
  IF r.ret = <<>> THEN [st |-> r.st, ret |-> FALSE]
  ELSE IF info.folder
    THEN [st |-> MkdirEach(r.st, r.ret, TRUE), ret |-> TRUE]
  ELSE [st |-> CopyEach(Fetched(Mkdirp(r.st, Dirname(Head(r.ret)), {}),
                                Head(r.ret), info),
                        Head(r.ret), Tail(r.ret)),
        ret |-> TRUE]

\* downloadFile(fileInfo).  Returns [st, ret].
DownloadFile(st, info) ==
  IF st.err \/ ShouldIgnoreFile(info) THEN [st |-> st, ret |-> FALSE]
  ELSE Download(GetPaths(st, info, Fuel), info)

\* addFileLocally(fileInfo)
AddFileLocally(st, info) ==
  IF st.err THEN [st |-> st, ret |-> FALSE]
  ELSE DownloadFile(StoreFileInfo(st, info, Fuel).st, info)

NameRank(n) == IF n = "x" THEN 1 ELSE 2

RECURSIVE PathLess(_, _)
\* The order of Array.prototype.sort on path strings.
PathLess(p, q) ==
  IF q = <<>> THEN FALSE
  ELSE IF p = <<>> THEN TRUE
  ELSE IF Head(p) # Head(q) THEN NameRank(Head(p)) < NameRank(Head(q))
  ELSE PathLess(Tail(p), Tail(q))

SortPaths(ps) == SortSeq(ps, LAMBDA p, q : PathLess(p, q))

RECURSIVE RenameEach(_, _, _, _)
\* The first loop of changePaths from index i on: a removed path is renamed
\* to the added path of the same index, or removed when there is none.
RenameEach(st, removedPaths, addedPaths, i) ==
  IF i > Len(removedPaths) THEN st
  ELSE RenameEach(
         IF i <= Len(addedPaths)
           THEN FsRename(st, removedPaths[i], addedPaths[i],
                         {removedPaths[i], addedPaths[i]})
           ELSE FsRemove(st, removedPaths[i], {removedPaths[i]}),
         removedPaths, addedPaths, i + 1)

\* changePaths(oldPaths, newPaths)
ChangePaths(st, oldPaths, newPaths) ==
  LET inOld(p) == \E k \in 1..Len(oldPaths) : oldPaths[k] = p
      inNew(p) == \E k \in 1..Len(newPaths) : newPaths[k] = p
      removedPaths == SelectSeq(oldPaths, LAMBDA p : ~inNew(p))
      addedPaths == SelectSeq(newPaths, LAMBDA p : ~inOld(p))
  IN IF oldPaths = <<>> THEN st
     ELSE CopyEach(RenameEach(MkdirEach(st, addedPaths, FALSE),
                              removedPaths, addedPaths, 1),
                   newPaths[1],
                   SubSeq(addedPaths, Len(removedPaths) + 1, Len(addedPaths)))

\* noChange(oldInfo, newInfo)
NoChange(oldInfo, newInfo) ==
  /\ ~(newInfo.mtime > oldInfo.mtime)
  /\ oldInfo.name = newInfo.name
  /\ oldInfo.parents = newInfo.parents

NoChangeRecord == [fileId |-> "none", removed |-> FALSE, file |-> NoInfo]

\* A handleChange call: where it stands, its change, the oldInfo it read
\* and the value it returns.
NoTask == [phase |-> "idle", change |-> NoChangeRecord, old |-> NoInfo,
           changed |-> FALSE]

\* handleChange(change) up to its first await: the branch is chosen from
\* this.fileInfo as it is when the call is made.
Begin(st, c) ==
  IF c.removed \/ c.file.trashed
    THEN IF Has(st.fileInfo, c.fileId)
           THEN [NoTask EXCEPT !.phase = "remove", !.change = c,
                               !.old = st.fileInfo[c.fileId]]
           ELSE [NoTask EXCEPT !.phase = "done", !.change = c]
  ELSE IF ~Has(st.fileInfo, c.fileId)
    THEN [NoTask EXCEPT !.phase = "add", !.change = c]
  ELSE [NoTask EXCEPT !.phase = "change", !.change = c,
                      !.old = st.fileInfo[c.fileId]]

Changed(r) == [st |-> r.st, ret |-> TRUE]

\* The known-id branch of handleChange once oldPaths (oret) and newPaths
\* (n.ret) are known.
DecideBoth(oret, n, oldInfo, newInfo) ==
  IF n.ret = <<>> /\ oret = <<>> THEN [st |-> n.st, ret |-> FALSE]
  ELSE IF newInfo.md5 # oldInfo.md5
    THEN Changed(AddFileLocally(RemoveFileLocally(n.st, oldInfo.id).st,
                                newInfo))
  ELSE IF oret = <<>> THEN AddFileLocally(n.st, newInfo)
  ELSE IF ShouldIgnoreFile(newInfo) THEN [st |-> n.st, ret |-> FALSE]
  ELSE IF SortPaths(oret) = SortPaths(n.ret) THEN [st |-> n.st, ret |-> FALSE]
  ELSE [st |-> ChangePaths(n.st, SortPaths(oret), SortPaths(n.ret)),
        ret |-> TRUE]

DecideNew(o, oldInfo, newInfo) ==
  DecideBoth(o.ret, GetPaths(o.st, newInfo, Fuel), oldInfo, newInfo)

\* The known-id branch of handleChange after storeFileInfo and noChange.
Decide(st, oldInfo, newInfo) ==
  DecideNew(GetPaths(st, oldInfo, Fuel), oldInfo, newInfo)

\* A call that returns r has ended.
Ended(r, t) ==
  [st |-> r.st, tk |-> [t EXCEPT !.phase = "done", !.changed = r.ret]]

\* The code of a handleChange call from the await it stands at to the next.
Phase(st, t) ==
  CASE t.phase = "remove" -> Ended(RemoveRest(st, t.old), t)
    [] t.phase = "add" ->
         [st |-> StoreFileInfo(st, t.change.file, Fuel).st,
          tk |-> [t EXCEPT !.phase = "download"]]
    [] t.phase = "download" -> Ended(DownloadFile(st, t.change.file), t)
    [] t.phase = "change" ->
         [st |-> StoreFileInfo(st, t.change.file, Fuel).st,
          tk |-> [t EXCEPT !.phase = IF NoChange(t.old, t.change.file)
                                       THEN "done" ELSE "decide"]]
    [] t.phase = "decide" -> Ended(Decide(st, t.old, t.change.file), t)
    [] OTHER -> [st |-> st, tk |-> t]

\* A call in which a filesystem or remote call threw has failed.
Settle(out, t) ==
  IF out.st.err
    THEN [st |-> [out.st EXCEPT !.err = FALSE],
          tk |-> [t EXCEPT !.phase = "failed"]]
    ELSE out

\* A handleChange call runs from one await to the next.  Returns [st, tk].
Advance(st, t) == Settle(Phase(st, t), t)

Resume(a) == Advance(a.st, a.tk)

\* handleChange(change) run from its call to its end without interruption.
HandleChange(st, c) == Resume(Resume(Advance(st, Begin(st, c))))

\* ================================================= reconciler: Init
FolderInfo(n) ==
  [id |-> "F", name |-> n, parents |-> <<rootId>>, folder |-> TRUE,
   md5 |-> "", mtime |-> 0, size |-> FALSE, trashed |-> FALSE]

FileInfo(n, ps) ==
  [id |-> "a", name |-> n, parents |-> ps, folder |-> FALSE,
   md5 |-> "m1", mtime |-> 0, size |-> TRUE, trashed |-> FALSE]

\* The parent lists a file of the model has: in the root or in the folder.
ParentChoices == {<<"R">>, <<"F">>}

\* Two records would be materialised at the same local path.
SameSpot(i, j) ==
  /\ i.id # "none" /\ j.id # "none" /\ i.id # j.id
  /\ i.name = j.name
  /\ \E k \in 1..Len(i.parents), l \in 1..Len(j.parents) :
       i.parents[k] = j.parents[l]

\* A remote drive: the files have a parent that exists and no two of them
\* the same name in the same folder.
WellFormed(r) ==
  /\ r[rootId] = RootInfo
  /\ \A id \in Ids : r[id].id \in {"none", id}
  /\ \A id \in Ids :
       \A k \in 1..Len(r[id].parents) : Has(r, r[id].parents[k])
  /\ \A i, j \in Ids : ~SameSpot(r[i], r[j])

\* The second file of the model.
OtherFile(n, ps) == [FileInfo(n, ps) EXCEPT !.id = "b", !.md5 = "m2"]

\* The remote drives an account starts from.
SyncTrees ==
  {r \in {[id \in Ids |-> CASE id = "R" -> RootInfo
                            [] id = "F" -> f
                            [] id = "a" -> g
                            [] OTHER    -> h] :
            f \in {NoInfo, FolderInfo("x")},
            g \in {NoInfo} \cup {FileInfo(n, ps) :
                                   n \in Names,
                                   ps \in ParentChoices \cup {<<"R", "F">>}},
            h \in {NoInfo} \cup {OtherFile(n, ps) :
                                   n \in Names, ps \in ParentChoices}} :
     WellFormed(r)}

\* Those with one file at most, which is in one folder.
Trees == {r \in SyncTrees : ~Has(r, "b") /\ Len(r["a"].parents) <= 1}

EmptyEngine ==
  [fileInfo |-> [id \in Ids |-> NoInfo],
   paths |-> [q \in AllPaths |-> "none"],
   pic |-> [id \in Ids |-> NoInfo],
   disk |-> [q \in AllPaths |-> IF q = <<>> THEN "dir" ELSE "none"],
   bare |-> {}, err |-> FALSE]

\* The files downloadFolderStructure returns: every record once for each of
\* its parents ("a2" is the file a, listed in its second folder).
DlTasks == {"F", "a", "b", "a2"}

\* A downloadFile call of the window of ParallelMapFlow: where it stands
\* and where the file its write stream has open is now ("tmp", or the path
\* another call renamed the shared temporary file to).
NoDownloads == [k \in DlTasks |-> [phase |-> "idle", into |-> "tmp"]]

StoreIf(st, id) ==
  IF Has(remote, id) THEN StoreFileInfo(st, remote[id], Fuel).st ELSE st

\* A folder walk that does not descend into the folders.
WalkedRootOnly(st) ==
  ComputePaths(
    IF Has(remote, "F")
      THEN StoreFileInfo(StoreFileInfo(st, RootInfo, Fuel).st, remote["F"],
                         Fuel).st
      ELSE StoreFileInfo(st, RootInfo, Fuel).st)

\* start() up to ParallelMapFlow: getFileInfo("root"), then
\* downloadFolderStructure("root"), which stores the content of a folder
\* before the folder, then computePaths().
Walked(st) ==
  ComputePaths(
    StoreIf(StoreIf(StoreIf(StoreFileInfo(st, RootInfo, Fuel).st, "a"), "b"),
            "F"))

DownloadIf(st, id) ==
  IF Has(remote, id) THEN DownloadFile(st, remote[id]).st ELSE st

Unmarked(st) == [st EXCEPT !.bare = {}]

\* The engine after start() on the remote drive `remote`: the root record,
\* the folder walk (the content of a folder is stored before the folder),
\* computePaths() and the download of every record.
SyncedState ==
  Unmarked(DownloadIf(DownloadIf(Walked(EmptyEngine), "F"), "a"))

\* The reconciler of an account that has nothing but its root folder.
InitReconVars ==
  /\ remote = [id \in Ids |-> IF id = rootId THEN RootInfo ELSE NoInfo]
  /\ feed = <<>>
  /\ made = 0
  /\ \E st \in {SyncedState} :
       /\ fileInfo = st.fileInfo
       /\ paths = st.paths
       /\ parentInfoCache = st.pic
       /\ disk = st.disk
       /\ base = st
  /\ bare = {}
  /\ tk = [s \in Slots |-> NoTask]
  /\ lastAlone = NoChangeRecord
  /\ dl = NoDownloads
  /\ tmp = [n \in Names |-> "none"]

\* ------------------------------------------------------------------- Init
\* What logChange can count: the type names its callers pass.
ChangeTypes == {"removed", "added", "updated", "move to trash"}

\* `{}`: a type without a key counts 0.
NoChanges == [ty \in ChangeTypes |-> 0]

\* The constructor: this.lastChanges = {}.
InitNotifyVars ==
  /\ lastChanges = NoChanges
  /\ emits = 0

\* No getFileInfoBatch call is under examination.
NoEntry == [NoInfo EXCEPT !.id = "absent"]

NoResults == [returned |-> FALSE, entry |-> [id \in Ids |-> NoEntry]]

InitBatchVars ==
  /\ fileIds = {}
  /\ failing = {}
  /\ results = NoResults

\* What one invocation of the function given to tryTwice does: it resolves
\* with a value or is rejected with an error of some code.
Values == {"v1", "v2", "v3"}
ErrorCodes == {"ECONNRESET", "ETIMEDOUT", "403", "404", "500"}
Outcomes == Values \cup ErrorCodes

\* No tryTwice call is under examination: fn resolves, nothing is called.
InitRetryVars ==
  /\ fn = <<"v1", "v1">>
  /\ calls = 0
  /\ ret = [at |-> "idle", v |-> "none"]

\* The locals of watchChanges, in quarter milliseconds (a time the loop
\* computes is a multiple of that, or above maxDelay).
initialDelay == 32000
minDelay == 8000
maxDelay == 120000

\* pollDelay * backoffMultiplier
Backoff(d) == (3 * d) \div 2

\* No poll is under way.
NoPoll == [at |-> "top", fetched |-> 0, left |-> 0, handled |-> 0,
           changed |-> 0]

\* watchChanges as it enters its loop.
InitPollVars ==
  /\ pollDelay = initialDelay
  /\ poll = NoPoll

\* The number of changes the remote feed comes to hold in one behaviour of
\* the failing poller.
MaxFeed == 4

\* The number of calls of the poller (handleChange, getNewChanges) that
\* throw in one behaviour.
MaxThrows == 1

\* No handleChange call was made.
NoCall == [at |-> "none", snap |-> NoDoc]

\* No watchChanges call is under examination.
InitWatchVars ==
  /\ hc = [c \in 1..MaxFeed |-> NoCall]
  /\ win = <<>>
  /\ watchers = 0
  /\ rejected = 0

\* The local writes of a user in one behaviour.
MaxEdits == 2

\* No onLocalFileUpdated call is running, no event is to come.
NoUpdate == [at |-> "idle", src |-> <<>>, id |-> "none", md5 |-> "",
             before |-> NoInfo, events |-> {}, edits |-> 0]

\* The engine calls and the user's writes of one behaviour of SpecIgnore.
MaxIgnoreCalls == 2

MaxUserWrites == 1

\* No download is running, the registry is empty, no event is to come.
NoIgnore == [at |-> "idle", id |-> "none",
             tokens |-> [p \in AllPaths |-> 0],
             evq |-> [p \in AllPaths |-> <<>>],
             lost |-> 0, calls |-> 0, edits |-> 0]

\* The start() calls of one behaviour of SpecStart.
MaxStarts == 2

StartCalls == 1..MaxStarts

\* start() was not called.
NoStart == [at |-> "none", was |-> FALSE, snap |-> NoDoc]

InitUpdVars ==
  /\ upd = NoUpdate
  /\ ig = NoIgnore
  /\ sc = [k \in StartCalls |-> NoStart]

InitOtherVars ==
  /\ InitWatchVars
  /\ InitUpdVars

InitCallVars ==
  /\ InitNotifyVars
  /\ InitBatchVars
  /\ InitRetryVars
  /\ InitPollVars
  /\ InitOtherVars

\* The queue fields as the constructor leaves them.
InitQueueVars ==
  /\ queued = <<>>
  /\ handlingLocalChange = FALSE
  /\ consumer = "c_idle"
  /\ cur = "none"
  /\ removing = 0
  /\ trashing = 0
  /\ eventsLeft = MaxEvents
  /\ loops = 0
  /\ started = 0

InitPc ==
  [t \in Threads |->
     CASE t = "load"   -> "l_find"
       [] t = "start"  -> "s_idle"
       [] t = "poller" -> "p_off"
       [] t = "local"  -> "q_idle"
       [] t = "erase"  -> "e_idle"
       [] OTHER        -> "t_idle"]

\* The controller fields the constructor sets, but for those load() moves.
InitStoreRest ==
  /\ db = NoDoc
  /\ srv = 0
  /\ fetched = {}
  /\ applied = {}
  /\ changeToken = 0
  /\ changesToExecute = <<>>
  /\ saving = FALSE
  /\ synced = FALSE
  /\ syncing = FALSE
  /\ closed = FALSE
  /\ watchingChanges = FALSE
  /\ handlingRemoteChange = FALSE
  /\ hasId = FALSE
  /\ savedOnce = FALSE
  /\ changesSinceSave = 0
  /\ tchg = [s \in Slots |-> 0]
  /\ snap = [t \in Threads |-> NoDoc]
  /\ obj = NoDoc
  /\ restarts = 0
  /\ localLeft = MaxLocalSaves

InitStore ==
  /\ InitStoreRest
  /\ InitQueueVars
  /\ InitCallVars
  /\ InitReconVars
  /\ loaded = FALSE
  /\ loading = TRUE          \* the constructor has called load()
  /\ pc = InitPc

\* load() past `await this.handleChanges()` when handleChanges returns
\* without having awaited anything more (this happens in the same turn of
\* the event loop): the poller is started for a synced checkpoint and
\* loading is reset.
LoadPost(pcBase) ==
  /\ IF obj.exists /\ obj.synced
       THEN WatchChangesCall([pcBase EXCEPT !["load"] = "l_done"])
       ELSE /\ pc' = [pcBase EXCEPT !["load"] = "l_done"]
            /\ UNCHANGED watchingChanges
  /\ loading' = FALSE

\* ------------------------------------------------------ handleChanges loop
\* The head of the while loop of handleChanges, run by caller t with the
\* pending list cte: either a window of tasks is started, or the loop ends
\* and the trailing "save regularly" test runs.
HandleChangesHead(t, cte, pcBase) ==
  IF cte # <<>> /\ ~closed
    THEN LET n == Min(Len(cte), MaxWindow) IN
         /\ handlingRemoteChange' = TRUE
         /\ changesToExecute' = SubSeq(cte, n + 1, Len(cte))
         /\ tchg' = [s \in Slots |->
                       IF \E i \in 1..n : SlotNames[i] = s
                         THEN cte[CHOOSE i \in 1..n : SlotNames[i] = s]
                         ELSE 0]
         /\ pc' = [x \in Threads |->
                     IF x = t THEN AwaitWindow(t)
                     ELSE IF x \in Slots
                       THEN (IF \E i \in 1..n : SlotNames[i] = x
                               THEN "t_apply" ELSE "t_idle")
                       ELSE pcBase[x]]
         /\ UNCHANGED <<loading, watchingChanges>>
    ELSE /\ handlingRemoteChange' = FALSE
         /\ changesToExecute' = cte
         /\ tchg' = [s \in Slots |-> 0]
         /\ \E elapsed \in BOOLEAN :
              /\ ~savedOnce => elapsed
              /\ LET pcEnd == [x \in Threads |->
                                 IF x = t
                                   THEN (IF elapsed /\ changesSinceSave > 0
                                           THEN "sv_enter"
                                           ELSE AfterHandleChanges(t))
                                 ELSE IF x \in Slots THEN "t_idle"
                                 ELSE pcBase[x]]
                 IN IF t = "load" /\ pcEnd[t] = "l_post"
                      THEN LoadPost(pcEnd)
                      ELSE /\ pc' = pcEnd
                           /\ UNCHANGED <<loading, watchingChanges>>

\* load() with `this[item] = this[item] || obj[item]`.
LoadFindKeepsOwn ==
  /\ pc["load"] = "l_find"
  /\ obj' = db
  /\ IF db.exists
       THEN /\ changeToken' = IF changeToken # 0 THEN changeToken
                              ELSE db.changeToken
            /\ changesToExecute' = IF changesToExecute # <<>>
                                     THEN changesToExecute
                                     ELSE db.changesToExecute
            /\ synced' = (synced \/ db.synced)
            /\ applied' = applied
            /\ hasId' = TRUE
       ELSE UNCHANGED <<changeToken, changesToExecute, synced, applied, hasId>>
  /\ pc' = [pc EXCEPT !["load"] = "l_compute"]
  /\ UNCHANGED <<queueVars, reconVars, callVars>>
  /\ UNCHANGED <<db, srv, fetched, loaded, loading, saving, syncing, closed,
                 watchingChanges, handlingRemoteChange, savedOnce,
                 changesSinceSave, tchg, snap, restarts, localLeft>>

\* ------------------------------------------------------------------ load()
\* load(): globals.db.findOne answers; the toSave fields are restored with
\* `this[item] = obj[item] || this[item]`.
LoadFind ==
  /\ pc["load"] = "l_find"
  /\ obj' = db
  /\ IF db.exists
       THEN /\ changeToken' = IF db.changeToken # 0 THEN db.changeToken
                              ELSE changeToken
            /\ changesToExecute' = db.changesToExecute
            /\ synced' = (db.synced \/ synced)
            /\ applied' = db.applied
            /\ hasId' = TRUE
       ELSE UNCHANGED <<changeToken, changesToExecute, synced, applied, hasId>>
  /\ pc' = [pc EXCEPT !["load"] = "l_compute"]
  /\ UNCHANGED <<queueVars, reconVars, callVars>>
  /\ UNCHANGED <<db, srv, fetched, loaded, loading, saving, syncing, closed,
                 watchingChanges, handlingRemoteChange, savedOnce,
                 changesSinceSave, tchg, snap, restarts, localLeft>>

\* load(): computePaths() is done; loaded = true, then `await
\* this.handleChanges()` replays the pending changes.
LoadReplay ==
  /\ pc["load"] = "l_compute"
  /\ loaded' = TRUE
  /\ HandleChangesHead("load", changesToExecute, pc)
  /\ UNCHANGED <<queueVars, reconVars, callVars>>
  /\ UNCHANGED <<db, srv, fetched, applied, changeToken, saving, synced,
                 syncing, closed, hasId, savedOnce, changesSinceSave, snap,
                 obj, restarts, localLeft>>

\* handleChanges: `for (const result of results) await result` is through;
\* the while loop tests its condition again.
HandleChangesAwait(t) ==
  /\ pc[t] = AwaitWindow(t)
  /\ \A s \in Slots : pc[s] \in {"t_idle", "t_done"}
  /\ HandleChangesHead(t, changesToExecute, pc)
  /\ UNCHANGED <<queueVars, reconVars, callVars>>
  /\ UNCHANGED <<db, srv, fetched, applied, changeToken, loaded, saving,
                 synced, syncing, closed, hasId, savedOnce, changesSinceSave,
                 snap, obj, restarts, localLeft>>

\* One task of a window: handleChange(nextChange) completes and reports
\* whether it changed anything; a change is followed by save().
TaskApply(s) ==
  /\ pc[s] = "t_apply"
  /\ applied' = applied \cup {tchg[s]}
  /\ \E changed \in BOOLEAN :
       IF changed
         THEN /\ pc' = [pc EXCEPT ![s] = "sv_enter"]
              /\ UNCHANGED changesSinceSave
         ELSE /\ pc' = [pc EXCEPT ![s] = "t_done"]
              /\ changesSinceSave' = changesSinceSave + 1
  /\ UNCHANGED <<queueVars, reconVars, callVars>>
  /\ UNCHANGED <<db, srv, fetched, changeToken, changesToExecute, loaded,
                 loading, saving, synced, syncing, closed, watchingChanges,
                 handlingRemoteChange, hasId, savedOnce, tchg, snap, obj,
                 restarts, localLeft>>

\* ------------------------------------------------------------------ save()
\* save(): past finishLoading; either another load/save is in flight and the
\* call only waits for it, or saving is taken.
SaveEnter(t) ==
  /\ pc[t] = "sv_enter"
  /\ loaded
  /\ IF Busy
       THEN /\ pc' = [pc EXCEPT ![t] = "sv_wait"]
            /\ UNCHANGED <<saving, snap>>
       ELSE /\ saving' = TRUE
            /\ IF hasId
                 THEN /\ snap' = [snap EXCEPT ![t] = SaveObject]
                      /\ pc' = [pc EXCEPT ![t] = "sv_update"]
                 ELSE /\ pc' = [pc EXCEPT ![t] = "sv_insert"]
                      /\ UNCHANGED snap
  /\ UNCHANGED <<queueVars, reconVars, callVars>>
  /\ UNCHANGED <<db, srv, fetched, applied, changeToken, changesToExecute,
                 loaded, loading, synced, syncing, closed, watchingChanges,
                 handlingRemoteChange, hasId, savedOnce, changesSinceSave,
                 tchg, obj, restarts, localLeft>>

\* finishSaveOperation(): the polling loop ends once neither flag is set;
\* save() then returns without having written anything.
SaveWait(t) ==
  /\ pc[t] = "sv_wait"
  /\ ~Busy
  /\ pc' = [pc EXCEPT ![t] = AfterSave(t)]
  /\ UNCHANGED <<queueVars, reconVars, callVars>>
  /\ UNCHANGED <<db, srv, fetched, applied, changeToken, changesToExecute,
                 loaded, loading, saving, synced, syncing, closed,
                 watchingChanges, handlingRemoteChange, hasId, savedOnce,
                 changesSinceSave, tchg, snap, obj, restarts, localLeft>>

\* save(): db.insert answers; the saveObject is built and db.update issued.
SaveInsert(t) ==
  /\ pc[t] = "sv_insert"
  /\ db' = InsertedDoc
  /\ hasId' = TRUE
  /\ snap' = [snap EXCEPT ![t] = SaveObject]
  /\ pc' = [pc EXCEPT ![t] = "sv_update"]
  /\ UNCHANGED <<queueVars, reconVars, callVars>>
  /\ UNCHANGED <<srv, fetched, applied, changeToken, changesToExecute, loaded,
                 loading, saving, synced, syncing, closed, watchingChanges,
                 handlingRemoteChange, savedOnce, changesSinceSave, tchg, obj,
                 restarts, localLeft>>

\* save(): db.update answers; bookkeeping, watchChanges(), saving = false.
SaveUpdate(t) ==
  /\ pc[t] = "sv_update"
  /\ db' = IF db.exists THEN snap[t] ELSE db
  /\ savedOnce' = TRUE
  /\ changesSinceSave' = 0
  /\ WatchChangesCall([pc EXCEPT ![t] = AfterSave(t)])
  /\ saving' = FALSE
  /\ snap' = [snap EXCEPT ![t] = NoDoc]
  /\ UNCHANGED <<queueVars, reconVars, callVars>>
  /\ UNCHANGED <<srv, fetched, applied, changeToken, changesToExecute, loaded,
                 loading, synced, syncing, closed, handlingRemoteChange, hasId,
                 tchg, obj, restarts, localLeft>>

\* ----------------------------------------------------------------- start()
\* start() is called and is past finishLoading: the assertion holds,
\* syncing = true, getFileInfo("root") is issued.
StartBegin ==
  /\ pc["start"] = "s_idle"
  /\ loaded
  /\ ~syncing
  /\ syncing' = TRUE
  /\ pc' = [pc EXCEPT !["start"] = "s_root"]
  /\ UNCHANGED <<queueVars, reconVars, callVars>>
  /\ UNCHANGED <<db, srv, fetched, applied, changeToken, changesToExecute,
                 loaded, loading, saving, synced, closed, watchingChanges,
                 handlingRemoteChange, hasId, savedOnce, changesSinceSave,
                 tchg, snap, obj, restarts, localLeft>>

\* A start() that goes on to the tree walk without a change token.
StartRootNoToken ==
  /\ pc["start"] = "s_root"
  /\ pc' = [pc EXCEPT !["start"] = "s_walk"]
  /\ UNCHANGED <<queueVars, reconVars, callVars>>
  /\ UNCHANGED <<db, srv, fetched, applied, changeToken, changesToExecute,
                 loaded, loading, saving, synced, syncing, closed,
                 watchingChanges, handlingRemoteChange, hasId, savedOnce,
                 changesSinceSave, tchg, snap, obj, restarts, localLeft>>

\* start(): the root record is known; startWatchingChanges() returns at once
\* when a token is held and asks for the start page token otherwise.
StartRoot ==
  /\ pc["start"] = "s_root"
  /\ pc' = [pc EXCEPT !["start"] =
              IF changeToken # 0 THEN "s_walk" ELSE "s_token"]
  /\ UNCHANGED <<queueVars, reconVars, callVars>>
  /\ UNCHANGED <<db, srv, fetched, applied, changeToken, changesToExecute,
                 loaded, loading, saving, synced, syncing, closed,
                 watchingChanges, handlingRemoteChange, hasId, savedOnce,
                 changesSinceSave, tchg, snap, obj, restarts, localLeft>>

\* startWatchingChanges(): getStartPageToken answers.
StartToken ==
  /\ pc["start"] = "s_token"
  /\ \E n \in srv..MaxChanges :
       /\ srv' = n
       /\ changeToken' = IF changeToken = 0 THEN n + 1 ELSE changeToken
  /\ pc' = [pc EXCEPT !["start"] = "s_walk"]
  /\ UNCHANGED <<queueVars, reconVars, callVars>>
  /\ UNCHANGED <<db, fetched, applied, changesToExecute, loaded, loading,
                 saving, synced, syncing, closed, watchingChanges,
                 handlingRemoteChange, hasId, savedOnce, changesSinceSave,
                 tchg, snap, obj, restarts, localLeft>>

\* start(): the tree walk, computePaths and ParallelMapFlow are through;
\* syncing = false, synced = true, then save().
StartWalk ==
  /\ pc["start"] = "s_walk"
  /\ syncing' = FALSE
  /\ synced' = TRUE
  /\ pc' = [pc EXCEPT !["start"] = "sv_enter"]
  /\ UNCHANGED <<queueVars, reconVars, callVars>>
  /\ UNCHANGED <<db, srv, fetched, applied, changeToken, changesToExecute,
                 loaded, loading, saving, closed, watchingChanges,
                 handlingRemoteChange, hasId, savedOnce, changesSinceSave,
                 tchg, snap, obj, restarts, localLeft>>

\* ---------------------------------------------------------- watchChanges()
\* watchChanges(): no token is held; startWatchingChanges() fetches one.
PollToken ==
  /\ pc["poller"] = "p_token"
  /\ \E n \in srv..MaxChanges :
       /\ srv' = n
       /\ changeToken' = IF changeToken = 0 THEN n + 1 ELSE changeToken
  /\ pc' = [pc EXCEPT !["poller"] = "p_check"]
  /\ UNCHANGED <<queueVars, reconVars, callVars>>
  /\ UNCHANGED <<db, fetched, applied, changesToExecute, loaded, loading,
                 saving, synced, syncing, closed, watchingChanges,
                 handlingRemoteChange, hasId, savedOnce, changesSinceSave,
                 tchg, snap, obj, restarts, localLeft>>

\* A poller loop that does not test closed.
PollCheckIgnoresClose ==
  /\ pc["poller"] = "p_check"
  /\ pc' = [pc EXCEPT !["poller"] =
              IF ~syncing /\ synced THEN "p_fetch" ELSE "p_check"]
  /\ UNCHANGED <<queueVars, reconVars, callVars>>
  /\ UNCHANGED <<db, srv, fetched, applied, changeToken, changesToExecute,
                 loaded, loading, saving, synced, syncing, closed,
                 watchingChanges, handlingRemoteChange, hasId, savedOnce,
                 changesSinceSave, tchg, snap, obj, restarts, localLeft>>

\* `await delay(pollDelay)` is over (or the loop is entered): the head of
\* `while (!this.closed)` and the test `!syncing && synced`.
PollCheck ==
  /\ pc["poller"] = "p_check"
  /\ pc' = [pc EXCEPT !["poller"] =
              IF closed THEN "p_exit"
              ELSE IF ~syncing /\ synced THEN "p_fetch"
              ELSE "p_check"]
  /\ UNCHANGED <<queueVars, reconVars, callVars>>
  /\ UNCHANGED <<db, srv, fetched, applied, changeToken, changesToExecute,
                 loaded, loading, saving, synced, syncing, closed,
                 watchingChanges, handlingRemoteChange, hasId, savedOnce,
                 changesSinceSave, tchg, snap, obj, restarts, localLeft>>

\* The changes changes.list returns for pageToken tok when the feed holds n
\* changes: every change from tok on, with newStartPageToken = n + 1.
ChangesSince(tok, n) == [i \in 1..(n + 1 - tok) |-> tok + i - 1]

\* handleNewChanges(): getNewChanges() drains the feed and adopts the new
\* start token; changesToExecute is replaced and handleChanges() begins.
PollFetch ==
  /\ pc["poller"] = "p_fetch"
  /\ \E n \in srv..MaxChanges :
       /\ srv' = n
       /\ changeToken' = n + 1
       /\ fetched' = fetched \cup Range(ChangesSince(changeToken, n))
       /\ HandleChangesHead("poller", ChangesSince(changeToken, n), pc)
  /\ UNCHANGED <<queueVars, reconVars, callVars>>
  /\ UNCHANGED <<db, applied, loaded, saving, synced, syncing, closed,
                 hasId, savedOnce, changesSinceSave, snap, obj, restarts,
                 localLeft>>

\* ------------------------------------------------- local handlers' save()
\* The watcher (started by load) delivers an event; its handler runs up to
\* its final `await this.save()`.
LocalHandlerSave ==
  /\ pc["local"] = "q_idle"
  /\ loaded
  /\ ~closed
  /\ localLeft > 0
  /\ localLeft' = localLeft - 1
  /\ pc' = [pc EXCEPT !["local"] = "sv_enter"]
  /\ UNCHANGED <<queueVars, reconVars, callVars>>
  /\ UNCHANGED <<db, srv, fetched, applied, changeToken, changesToExecute,
                 loaded, loading, saving, synced, syncing, closed,
                 watchingChanges, handlingRemoteChange, hasId, savedOnce,
                 changesSinceSave, tchg, snap, obj, restarts>>

\* ------------------------------------------------------- close(), erase()
CloseCall ==
  /\ cur # "exit"
  /\ ~closed
  /\ closed' = TRUE
  /\ UNCHANGED <<queueVars, reconVars, callVars>>
  /\ UNCHANGED <<db, srv, fetched, applied, changeToken, changesToExecute,
                 loaded, loading, saving, synced, syncing, watchingChanges,
                 handlingRemoteChange, hasId, savedOnce, changesSinceSave, pc,
                 tchg, snap, obj, restarts, localLeft>>

\* erase(): `await this.close()`.
EraseCall ==
  /\ pc["erase"] = "e_idle"
  /\ closed' = TRUE
  /\ pc' = [pc EXCEPT !["erase"] = "e_enter"]
  /\ UNCHANGED <<queueVars, reconVars, callVars>>
  /\ UNCHANGED <<db, srv, fetched, applied, changeToken, changesToExecute,
                 loaded, loading, saving, synced, syncing, watchingChanges,
                 handlingRemoteChange, hasId, savedOnce, changesSinceSave,
                 tchg, snap, obj, restarts, localLeft>>

\* erase(): past finishLoading; waits like save(), or takes saving and, when
\* an id is held, issues db.remove.
EraseEnter ==
  /\ pc["erase"] = "e_enter"
  /\ loaded
  /\ IF Busy
       THEN /\ pc' = [pc EXCEPT !["erase"] = "e_wait"]
            /\ UNCHANGED saving
       ELSE IF hasId
         THEN /\ saving' = TRUE
              /\ pc' = [pc EXCEPT !["erase"] = "e_remove"]
         ELSE /\ pc' = [pc EXCEPT !["erase"] = "e_done"]
              /\ UNCHANGED saving
  /\ UNCHANGED <<queueVars, reconVars, callVars>>
  /\ UNCHANGED <<db, srv, fetched, applied, changeToken, changesToExecute,
                 loaded, loading, synced, syncing, closed, watchingChanges,
                 handlingRemoteChange, hasId, savedOnce, changesSinceSave,
                 tchg, snap, obj, restarts, localLeft>>

EraseWait ==
  /\ pc["erase"] = "e_wait"
  /\ ~Busy
  /\ pc' = [pc EXCEPT !["erase"] = "e_done"]
  /\ UNCHANGED <<queueVars, reconVars, callVars>>
  /\ UNCHANGED <<db, srv, fetched, applied, changeToken, changesToExecute,
                 loaded, loading, saving, synced, syncing, closed,
                 watchingChanges, handlingRemoteChange, hasId, savedOnce,
                 changesSinceSave, tchg, snap, obj, restarts, localLeft>>

\* erase(): db.remove answers.
EraseRemove ==
  /\ pc["erase"] = "e_remove"
  /\ db' = NoDoc
  /\ saving' = FALSE
  /\ pc' = [pc EXCEPT !["erase"] = "e_done"]
  /\ UNCHANGED <<queueVars, reconVars, callVars>>
  /\ UNCHANGED <<srv, fetched, applied, changeToken, changesToExecute, loaded,
                 loading, synced, syncing, closed, watchingChanges,
                 handlingRemoteChange, hasId, savedOnce, changesSinceSave,
                 tchg, snap, obj, restarts, localLeft>>

\* ------------------------------------------------------------ environment
\* (The remote feed grows between two requests: every request below draws
\* the number of changes the feed holds by then.)
\* The process ends at any point and a new one constructs a fresh Sync
\* object (constructor, sync.js:22-51); only the datastore and the remote
\* service keep their state.
Restart ==
  /\ restarts < MaxRestarts
  /\ restarts' = restarts + 1
  /\ applied' = {}
  /\ changeToken' = 0
  /\ changesToExecute' = <<>>
  /\ loaded' = FALSE
  /\ loading' = TRUE
  /\ saving' = FALSE
  /\ synced' = FALSE
  /\ syncing' = FALSE
  /\ closed' = FALSE
  /\ watchingChanges' = FALSE
  /\ handlingRemoteChange' = FALSE
  /\ hasId' = FALSE
  /\ savedOnce' = FALSE
  /\ changesSinceSave' = 0
  /\ pc' = InitPc
  /\ tchg' = [s \in Slots |-> 0]
  /\ snap' = [t \in Threads |-> NoDoc]
  /\ obj' = NoDoc
  /\ localLeft' = MaxLocalSaves
  /\ UNCHANGED <<queueVars, reconVars, callVars>>
  /\ UNCHANGED <<db, srv, fetched>>

Savers == {"load", "poller", "start", "local"} \cup Slots

NextStore ==
  \/ LoadFind
  \/ LoadReplay
  \/ \E t \in Callers : HandleChangesAwait(t)
  \/ \E s \in Slots : TaskApply(s)
  \/ \E t \in Savers : SaveEnter(t)
  \/ \E t \in Savers : SaveWait(t)
  \/ \E t \in Savers : SaveInsert(t)
  \/ \E t \in Savers : SaveUpdate(t)
  \/ StartBegin
  \/ StartRoot
  \/ StartToken
  \/ StartWalk
  \/ PollToken
  \/ PollCheck
  \/ PollFetch
  \/ LocalHandlerSave
  \/ CloseCall
  \/ EraseCall
  \/ EraseEnter
  \/ EraseWait
  \/ EraseRemove
  \/ Restart

SpecStore == InitStore /\ [][NextStore]_vars

\* ==================================================== claims on SpecStore
\* The steps of load() and of everything it awaits: its window tasks and
\* the save() calls made inside handleChanges.
LoadSteps ==
  \/ LoadFind
  \/ LoadReplay
  \/ HandleChangesAwait("load")
  \/ \E t \in Slots \cup {"load"} :
       SaveEnter(t) \/ SaveWait(t) \/ SaveInsert(t) \/ SaveUpdate(t)
  \/ \E s \in Slots : TaskApply(s)

\* C1: a load() that found pending changes in the checkpoint runs to its
\* end: as long as it has not completed, load() or something it awaits can
\* take a step (a wait that no step can end means loading stays true for
\* ever and every later save() and start() hangs behind it).
C1_LoadCompletes ==
  (pc["load"] \notin {"l_find", "l_done"} /\ obj.changesToExecute # <<>>)
    => ENABLED LoadSteps

\* C2: every checkpoint written holds, in changesToExecute, each change that
\* was fetched before its changeToken was adopted and whose application had
\* not completed when the checkpoint was taken.
C2_CheckpointKeepsFetched ==
  db.written =>
    \A c \in fetched :
      c < db.changeToken =>
        (c \in db.applied \/ c \in Range(db.changesToExecute))

\* C3: the change token advances to a new value only after every change
\* fetched under the previous token has been applied and a checkpoint that
\* holds the result has been written.
C3_TokenAdvancesAfterApply ==
  [][(changeToken # 0 /\ changeToken' # 0 /\ changeToken' # changeToken)
       => \A c \in changeToken..(changeToken' - 1) :
            /\ c \in applied'
            /\ db'.written
            /\ c \in db'.applied]_vars

\* C8: no handleChange is in progress while an initial sync is (syncing).
C8_NoApplyWhileSyncing ==
  syncing => \A s \in Slots : pc[s] # "t_apply"

\* The threads that are inside a datastore call of load, save or erase.
InDatastore ==
  {t \in Threads : pc[t] \in {"l_find", "sv_insert", "sv_update", "e_remove"}}

\* C10: the datastore accesses of load(), save() and erase() never overlap:
\* at most one of them is inside findOne / insert / update / remove.
C10_DatastoreAccessExclusive == Cardinality(InDatastore) <= 1

\* C10 witness: a save is writing while another save request waits for it.
C10_Witness ==
  \E t, u \in Threads :
    /\ t # u
    /\ pc[t] = "sv_update"
    /\ pc[u] \in {"sv_wait", "e_wait"}

\* C11: when erase() returns, the datastore holds no checkpoint record,
\* whatever save or load was in flight when erase() was called.
C11_EraseRemovesCheckpoint ==
  [][(pc["erase"] # "e_done" /\ pc'["erase"] = "e_done")
       => ~db'.exists]_vars

\* C12: when start() returns (and neither close() nor erase() was called),
\* synced is true and syncing false, the poller loop has been started and
\* the persisted checkpoint has synced = true and a change token.
C12_StartLeavesSyncedCheckpoint ==
  [][(/\ pc["start"] # "s_done" /\ pc'["start"] = "s_done"
      /\ ~closed' /\ pc'["erase"] = "e_idle")
       => /\ synced' /\ ~syncing'
          /\ watchingChanges'
          /\ db'.written /\ db'.synced /\ db'.changeToken # 0]_vars

\* C15: the change token of a checkpoint is never lower than the one of
\* the checkpoint it replaces.
C15_CheckpointTokenMonotone ==
  [][(db.written /\ db'.written) => db'.changeToken >= db.changeToken]_vars

\* C15 witness: a checkpoint holds a token the poller advanced to, written
\* over the checkpoint that had started the poller.
C15_Witness ==
  db.written /\ fetched # {} /\ db.changeToken = MaxChanges + 1

\* ======================================================== local event queue
\* The watcher's events; "unlinkRoot" is the unlinkDir event whose path is
\* the account folder.
Kinds == {"add", "change", "unlink", "addDir", "unlinkDir", "unlinkRoot"}

\* What the handler finds for its path: nothing in the path index, an index
\* entry whose id is in the metadata cache, or an index entry only.
Finds == {"unknown", "cached", "indexOnly"}

\* The state after load() on an account without a checkpoint: the watcher
\* is initialised and delivers events.
InitQueue ==
  /\ InitStoreRest
  /\ InitQueueVars
  /\ InitCallVars
  /\ InitReconVars
  /\ loaded = TRUE
  /\ loading = FALSE
  /\ pc = [InitPc EXCEPT !["load"] = "l_done"]

\* `await f()` of the loop: the handler of kind k runs up to its first
\* await.  onLocalDirRemoved calls onLocalFileRemoved without awaiting it
\* and returns; onLocalFileRemoved returns at once for a path that is not in
\* the index; every other handler starts with an await.  For the account
\* folder onLocalDirRemoved calls process.exit: nothing runs after it.
RunTask(k, found) ==
  CASE k = "unlinkRoot" ->
         /\ cur' = "exit"
         /\ UNCHANGED <<removing, trashing>>
    [] k = "unlinkDir" ->
         /\ cur' = "done"
         /\ removing' = IF found = "cached" THEN removing + 1 ELSE removing
         /\ trashing' = IF found = "indexOnly" THEN trashing + 1 ELSE trashing
    [] k = "unlink" ->
         /\ cur' = IF found = "unknown" THEN "done" ELSE "run"
         /\ UNCHANGED <<removing, trashing>>
    [] OTHER ->
         /\ cur' = "run"
         /\ UNCHANGED <<removing, trashing>>

\* queue(fn) without its test of queued.length: every call enters the loop.
WatcherEventNoAbort(k, found) ==
  /\ cur # "exit"
  /\ loaded
  /\ ~closed
  /\ eventsLeft > 0
  /\ Len(queued) < MaxQueue
  /\ eventsLeft' = eventsLeft - 1
  /\ queued' = Append(queued, k)
  /\ handlingLocalChange' = TRUE
  /\ consumer' = "c_await"
  /\ loops' = loops + 1
  /\ started' = started + 1
  /\ RunTask(k, found)
  /\ UNCHANGED <<storeVars, reconVars, callVars>>

\* A watcher listener fires: queue(fn) pushes the task and, when it is the
\* only one, becomes the consuming loop.
WatcherEvent(k, found) ==
  /\ cur # "exit"
  /\ loaded
  /\ ~closed
  /\ eventsLeft > 0
  /\ Len(queued) < MaxQueue
  /\ eventsLeft' = eventsLeft - 1
  /\ queued' = Append(queued, k)
  /\ IF Len(queued) > 0
       THEN UNCHANGED <<handlingLocalChange, consumer, cur, removing, trashing,
                        loops, started>>
       ELSE /\ handlingLocalChange' = TRUE
            /\ consumer' = "c_await"
            /\ loops' = loops + 1
            /\ started' = started + 1
            /\ RunTask(k, found)
  /\ UNCHANGED <<storeVars, reconVars, callVars>>

\* The awaited handler returns.
HandlerEnd ==
  /\ cur = "run"
  /\ cur' = "done"
  /\ UNCHANGED <<queued, handlingLocalChange, consumer, removing, trashing,
                 eventsLeft, loops, started>>
  /\ UNCHANGED <<storeVars, reconVars, callVars>>

\* The awaited handler throws: getParent did not find the directory of the
\* path in the index (onLocalFileAdded, onLocalDirAdded), or a remote call
\* failed twice.
HandlerThrow ==
  /\ cur = "run"
  /\ cur' = "failed"
  /\ UNCHANGED <<queued, handlingLocalChange, consumer, removing, trashing,
                 eventsLeft, loops, started>>
  /\ UNCHANGED <<storeVars, reconVars, callVars>>

\* The loop continues after `await f()`: shift, then the loop test.
QueueResume(found) ==
  /\ consumer = "c_await"
  /\ cur = "done"
  /\ queued' = Tail(queued)
  /\ IF Len(queued) > 1 /\ ~closed
       THEN /\ handlingLocalChange' = TRUE
            /\ RunTask(queued[2], found)
            /\ started' = started + 1
            /\ UNCHANGED <<consumer, loops>>
       ELSE /\ handlingLocalChange' = FALSE
            /\ consumer' = "c_idle"
            /\ cur' = "none"
            /\ loops' = loops - 1
            /\ UNCHANGED <<removing, trashing, started>>
  /\ UNCHANGED eventsLeft
  /\ UNCHANGED <<storeVars, reconVars, callVars>>

\* The catch of queue(): the flag is reset and the error rethrown; the task
\* that failed stays at the head of queued.
QueueCatch ==
  /\ consumer = "c_await"
  /\ cur = "failed"
  /\ handlingLocalChange' = FALSE
  /\ consumer' = "c_idle"
  /\ cur' = "none"
  /\ loops' = loops - 1
  /\ UNCHANGED <<queued, removing, trashing, eventsLeft, started>>
  /\ UNCHANGED <<storeVars, reconVars, callVars>>

\* A detached onLocalFileRemoved: removeFileLocally (and the save after it)
\* is through, the remote trash / delete call is issued.
DetachedRemoved ==
  /\ cur # "exit"
  /\ removing > 0
  /\ removing' = removing - 1
  /\ trashing' = trashing + 1
  /\ UNCHANGED <<queued, handlingLocalChange, consumer, cur, eventsLeft,
                 loops, started>>
  /\ UNCHANGED <<storeVars, reconVars, callVars>>

\* A detached onLocalFileRemoved: the remote call answers, the handler ends.
DetachedEnd ==
  /\ cur # "exit"
  /\ trashing > 0
  /\ trashing' = trashing - 1
  /\ UNCHANGED <<queued, handlingLocalChange, consumer, cur, removing,
                 eventsLeft, loops, started>>
  /\ UNCHANGED <<storeVars, reconVars, callVars>>

NextQueue ==
  \/ \E k \in Kinds, found \in Finds : WatcherEvent(k, found)
  \/ HandlerEnd
  \/ HandlerThrow
  \/ \E found \in Finds : QueueResume(found)
  \/ QueueCatch
  \/ DetachedRemoved
  \/ DetachedEnd
  \/ CloseCall

SpecQueue == InitQueue /\ [][NextQueue]_vars

\* ==================================================== claims on SpecQueue
\* The number of local-event handlers in progress.
HandlersInProgress == (IF cur = "run" THEN 1 ELSE 0) + removing + trashing

\* C7: at most one local-event handler is in progress at any moment.
C7_OneLocalHandler == HandlersInProgress <= 1

\* C20: after the handler of an added file or directory was rejected, the
\* local events queued behind it are executed: while the engine is not
\* closed, a task queued behind such a task has the consuming loop running.
C20_QueueRunsAfterRejection ==
  (~closed /\ Len(queued) > 1 /\ Head(queued) \in {"add", "addDir"})
    => consumer = "c_await"

\* C21: a reported removal of the account folder terminates the engine: while
\* the engine is not closed the event has the consuming loop running, and
\* the step that handles it ends the process without starting a local
\* removal or a remote trash / delete request.
C21_RootRemovalTerminates ==
  /\ []((~closed /\ \E i \in 1..Len(queued) : queued[i] = "unlinkRoot")
          => consumer = "c_await")
  /\ [][(cur # "exit" /\ cur' = "exit")
          => (removing' = removing /\ trashing' = trashing)]_vars

\* The tasks are numbered in the order of their queue() calls: Enqueued
\* of them were pushed, the first Shifted of them were shifted off again,
\* queued holds the tasks Shifted + 1 .. Enqueued.
Enqueued == MaxEvents - eventsLeft

Shifted == Enqueued - Len(queued)

\* C30: at most one queue() call is inside the consuming loop; the n-th task
\* the loop calls is the n-th task that was enqueued (the head of queued when
\* it is called), so that the tasks are started in the order of their
\* queue() calls and none is started twice or skipped; a queue() call made
\* while a loop is running pushes its task and does nothing else.
C30_SingleConsumerFifo ==
  /\ [](loops <= 1)
  /\ [](started \in {Shifted, Shifted + 1})
  /\ [][started' # started
          => (started' = started + 1 /\ started' = Shifted' + 1)]_vars
  /\ [][(loops > 0 /\ eventsLeft' < eventsLeft)
          => (/\ SubSeq(queued', 1, Len(queued)) = queued
              /\ Len(queued') = Len(queued) + 1
              /\ UNCHANGED <<handlingLocalChange, consumer, cur, removing,
                             trashing, loops, started>>)]_vars

\* C30 witness: the first task was shifted off; the loop is running the
\* second task, which was pushed while it ran the first, and a third that
\* was pushed after it waits behind.
C30_Witness ==
  /\ loops = 1
  /\ started = 2
  /\ Shifted = 1
  /\ cur = "run"
  /\ Len(queued) = 2

\* ================================================================ reconciler
\* The state after load() and start() on a remote drive: everything is
\* cached, indexed and downloaded; no change is pending.
InitRecon ==
  /\ InitStoreRest
  /\ InitQueueVars
  /\ InitCallVars
  /\ loaded = TRUE
  /\ loading = FALSE
  /\ pc = [InitPc EXCEPT !["load"] = "l_done"]
  /\ remote \in Trees
  /\ feed = <<>>
  /\ made = 0
  /\ \E st \in {SyncedState} :
       /\ fileInfo = st.fileInfo
       /\ paths = st.paths
       /\ parentInfoCache = st.pic
       /\ disk = st.disk
       /\ base = st
  /\ bare = {}
  /\ tk = [s \in Slots |-> NoTask]
  /\ lastAlone = NoChangeRecord
  /\ dl = NoDownloads
  /\ tmp = [n \in Names |-> "none"]

\* ---- the remote drive: each step changes one file and feeds the change
\* The remote drive changes file id to record new (new.id = "none": the
\* file is deleted); the feed gets the change.
RemoteStep(id, new) ==
  /\ made < MaxRemoteSteps
  /\ made' = made + 1
  /\ remote' = [remote EXCEPT ![id] = new]
  /\ WellFormed(remote')
  /\ feed' = Append(feed, [fileId |-> id, removed |-> new.id = "none",
                           file |-> new])
  /\ lastAlone' = NoChangeRecord
  /\ UNCHANGED <<fileInfo, paths, parentInfoCache, disk, bare, tk, base>>
  /\ UNCHANGED <<storeVars, queueVars, callVars, dl, tmp>>

Live(id) == Has(remote, id) /\ ~remote[id].trashed

RemoteRename(id, n) ==
  /\ Live(id)
  /\ n # remote[id].name
  /\ RemoteStep(id, [remote[id] EXCEPT !.name = n])

RemoteMove(ps) ==
  /\ Live("a")
  /\ ps # remote["a"].parents
  /\ \A k \in 1..Len(ps) : Live(ps[k])
  /\ RemoteStep("a", [remote["a"] EXCEPT !.parents = ps])

RemoteEdit ==
  /\ Live("a")
  /\ RemoteStep("a", [remote["a"] EXCEPT
                        !.md5 = IF @ = "m1" THEN "m2" ELSE "m1",
                        !.mtime = @ + 1])

\* The file of the root is put into the folder as well (addParents).
RemoteLink ==
  /\ Live("a") /\ Live("F")
  /\ remote["a"].parents = <<"R">>
  /\ RemoteStep("a", [remote["a"] EXCEPT !.parents = <<"R", "F">>])

\* One request that uploads new content for the file and renames it: the
\* feed has one change for both.
RemoteRevise(n) ==
  /\ Live("a")
  /\ n # remote["a"].name
  /\ RemoteStep("a", [remote["a"] EXCEPT
                        !.name = n,
                        !.md5 = IF @ = "m1" THEN "m2" ELSE "m1",
                        !.mtime = @ + 1])

RemoteTrash(id) ==
  /\ Live(id)
  /\ RemoteStep(id, [remote[id] EXCEPT !.trashed = TRUE])

RemoteDelete(id) ==
  /\ Has(remote, id)
  /\ RemoteStep(id, NoInfo)

RemoteCreate(new) ==
  /\ ~Has(remote, new.id)
  /\ RemoteStep(new.id, new)

\* ---- the engine
\* The engine state of a step's result becomes the next state.
Becomes(st) ==
  /\ fileInfo' = st.fileInfo
  /\ paths' = st.paths
  /\ parentInfoCache' = st.pic
  /\ disk' = st.disk
  /\ bare' = st.bare

Idle == \A s \in Slots : tk[s].phase = "idle"

\* handleChanges: the next window of changes is taken and handleChange is
\* called for each of them, one after the other, each running up to its
\* first await.
WindowStart ==
  /\ Idle
  /\ feed # <<>>
  /\ LET n == Min(Len(feed), MaxWindow) IN
       /\ tk' = [s \in Slots |->
                   IF \E i \in 1..n : SlotNames[i] = s
                     THEN Begin(Engine,
                                feed[CHOOSE i \in 1..n : SlotNames[i] = s])
                     ELSE NoTask]
       /\ feed' = SubSeq(feed, n + 1, Len(feed))
  /\ base' = Engine
  /\ lastAlone' = NoChangeRecord
  /\ UNCHANGED <<remote, made, fileInfo, paths, parentInfoCache, disk, bare>>
  /\ UNCHANGED <<storeVars, queueVars, callVars, dl, tmp>>

\* One handleChange call of the window runs to its next await.
TaskAdvance(s) ==
  /\ tk[s].phase \notin {"idle", "done", "failed"}
  /\ \E r \in {Advance(Engine, tk[s])} :
       /\ Becomes(r.st)
       /\ tk' = [tk EXCEPT ![s] = r.tk]
  /\ UNCHANGED <<remote, feed, made, base, lastAlone>>
  /\ UNCHANGED <<storeVars, queueVars, callVars, dl, tmp>>

Started == {s \in Slots : tk[s].phase # "idle"}

\* handleChanges: every promise of the window is settled.
WindowEnd ==
  /\ Started # {}
  /\ \A s \in Started : tk[s].phase \in {"done", "failed"}
  /\ tk' = [s \in Slots |-> NoTask]
  /\ base' = Engine
  /\ lastAlone' = IF Started = {SlotNames[1]} /\ tk[SlotNames[1]].phase = "done"
                    THEN tk[SlotNames[1]].change
                    ELSE NoChangeRecord
  /\ UNCHANGED <<remote, feed, made, fileInfo, paths, parentInfoCache, disk,
                 bare>>
  /\ UNCHANGED <<storeVars, queueVars, callVars, dl, tmp>>

NextRecon ==
  \/ \E id \in {"F", "a"}, n \in Names : RemoteRename(id, n)
  \/ \E ps \in ParentChoices : RemoteMove(ps)
  \/ RemoteLink
  \/ RemoteEdit
  \/ \E n \in Names : RemoteRevise(n)
  \/ \E id \in {"F", "a"} : RemoteTrash(id)
  \/ \E id \in {"F", "a"} : RemoteDelete(id)
  \/ \E n \in Names : RemoteCreate(FolderInfo(n))
  \/ \E n \in Names, ps \in ParentChoices : RemoteCreate(FileInfo(n, ps))
  \/ WindowStart
  \/ \E s \in Slots : TaskAdvance(s)
  \/ WindowEnd

SpecRecon == InitRecon /\ [][NextRecon]_vars

\* ==================================================== claims on SpecRecon
Proj(st) == <<st.fileInfo, st.paths, st.disk>>

Among(p, ps) == \E k \in 1..Len(ps) : ps[k] = p

\* C4: between two windows every entry (path -> id) of the path index has
\* its id in the metadata cache and its path among the paths getPaths
\* computes for the cached record.
C4_IndexCoherent ==
  Idle =>
    \A p \in AllPaths :
      paths[p] # "none" =>
        /\ Has(fileInfo, paths[p])
        /\ Among(p, GetPaths(Engine, fileInfo[paths[p]], Fuel).ret)

DoneAndSame(again) ==
  again.tk.phase = "done" /\ Proj(again.st) = Proj(Engine)

\* C5: a change that was just applied on its own is applied again: the call
\* completes and the cache, the index and the disk stay as they are.
C5_HandleChangeIdempotent ==
  lastAlone.fileId # "none" =>
    DoneAndSame(HandleChange(Engine, lastAlone))

\* C6: every path the reconciler creates, writes, renames or removes on the
\* disk was passed to watcher.ignore just before.
C6_IgnoreBeforeEveryWrite == bare = {}

\* Two calls of the window are for the same file id.
SameIdPair ==
  \E s, t \in Started :
    s # t /\ tk[s].change.fileId = tk[t].change.fileId

RECURSIVE InFeedOrder(_, _)
\* The changes of the window from the i-th on, each applied to its end
\* before the next one starts.
InFeedOrder(st, i) ==
  IF i > Cardinality(Started) THEN st
  ELSE InFeedOrder(HandleChange(st, tk[SlotNames[i]].change).st, i + 1)

\* C9: of two changes to the same file id in one window the later one is
\* not started before the earlier one has completed, and when the window is
\* through the state is the one of applying its changes one after the other.
C9_SameIdInFeedOrder ==
  /\ \A i, j \in 1..MaxWindow :
       (/\ i < j
        /\ tk[SlotNames[i]].phase # "idle"
        /\ tk[SlotNames[j]].phase # "idle"
        /\ tk[SlotNames[i]].change.fileId = tk[SlotNames[j]].change.fileId)
       => tk[SlotNames[i]].phase \in {"done", "failed"}
  /\ (SameIdPair /\ \A s \in Started : tk[s].phase = "done") =>
       Proj(Engine) = Proj(InFeedOrder(base, 1))

\* C16: a change that reports a known id as removed or trashed, applied on
\* its own, leaves no file of the record on the disk (the one file of these
\* drives is "a", the one folder below the root is "F"), none of these
\* paths mapped to the id in the index and no record of the id in the
\* cache, and it
\* returns "changed" exactly when something was deleted from the disk.
C16_RemovalDeletesEverywhere ==
  [][\A s \in Slots :
       (Started = {s} /\ tk[s].phase = "remove" /\ tk'[s].phase = "done") =>
         LET id == tk[s].change.fileId IN
           /\ ~Has(fileInfo', id)
           /\ \A p \in AllPaths :
                (IF id = "a" THEN IsFile(disk[p])
                 ELSE p # <<>> /\ disk[p] = "dir")
                  => disk'[p] = "none" /\ paths'[p] # id
           /\ tk'[s].changed <=>
                \E p \in AllPaths : disk[p] # "none" /\ disk'[p] = "none"]_vars

\* pathsOf(info) from the metadata cache alone, the parent-info cache
\* being empty.
PathsOf(info) ==
  Range(GetPaths([Engine EXCEPT !.pic = [i \in Ids |-> NoInfo]], info, Fuel).ret)

\* The call in slot s, alone in its window, is for a known file whose name
\* or parents changed and whose md5Checksum did not; the file is on the
\* disk and has a place after the change; the call returns in this step.
MoveEnds(s) ==
  /\ Started = {s}
  /\ tk[s].phase = "decide"
  /\ tk'[s].phase = "done"
  /\ ~tk[s].old.folder
  /\ ~ShouldIgnoreFile(tk[s].change.file)
  /\ tk[s].change.file.md5 = tk[s].old.md5
  /\ \E p \in AllPaths : IsFile(disk[p])
  /\ PathsOf(tk[s].change.file) # {}

RedownloadEnds(s) ==
  /\ Started = {s}
  /\ tk[s].phase = "decide"
  /\ tk'[s].phase = "done"
  /\ remote[tk[s].change.fileId] = tk[s].change.file
  /\ ~tk[s].old.folder
  /\ ~ShouldIgnoreFile(tk[s].change.file)
  /\ tk[s].change.file.md5 # tk[s].old.md5
  /\ \E p \in AllPaths : IsFile(disk[p])
  /\ PathsOf(tk[s].change.file) # {}

\* C28: applying on its own a change with another md5Checksum for a known
\* file leaves the new content at the new paths of the record and no file
\* at any other path, the old paths included, also when the name or the
\* parents changed in the same change.
C28_RedownloadReplacesCopies ==
  [][\A s \in Slots :
       RedownloadEnds(s) =>
         \A p \in AllPaths :
           IF p \in PathsOf(tk[s].change.file)
             THEN disk'[p] = tk[s].change.file.md5
             ELSE ~IsFile(disk'[p])]_vars

\* The call in slot s, alone in its window, is for a known file with the
\* same md5Checksum; the file is on the disk at every path of oldPaths and
\* newPaths differs from oldPaths, so that changePaths(oldPaths, newPaths)
\* is called; the call ends in this step, by a return or by a throw.
ChangePathsEnds(s, oldPaths, newPaths) ==
  /\ Started = {s}
  /\ tk[s].phase = "decide"
  /\ tk'[s].phase \in {"done", "failed"}
  /\ ~tk[s].old.folder
  /\ ~ShouldIgnoreFile(tk[s].change.file)
  /\ tk[s].change.file.md5 = tk[s].old.md5
  /\ oldPaths # <<>>
  /\ \A p \in Range(oldPaths) : IsFile(disk[p])
  /\ Range(oldPaths) # Range(newPaths)

\* C29: when changePaths(oldPaths, newPaths) with oldPaths not empty is
\* over, the file is at every path of newPaths and at no path that is in
\* oldPaths only, however many paths are removed and added.
C29_ChangePathsMaterialises ==
  [][\A s \in Slots :
       \A o \in {GetPaths(Engine, tk[s].old, Fuel)} :
         \A n \in {GetPaths(o.st, tk[s].change.file, Fuel)} :
           ChangePathsEnds(s, o.ret, n.ret) =>
             /\ \A p \in Range(n.ret) : IsFile(disk'[p])
             /\ \A p \in Range(o.ret) \ Range(n.ret) : ~IsFile(disk'[p])]_vars

\* C35: an entry of the parent-info cache agrees with the record the
\* metadata cache holds for the same id on name and parents, so that the
\* paths of a folder's children follow the folder's record.
C35_ParentCacheAgrees ==
  \A id \in Ids :
    (Has(parentInfoCache, id) /\ Has(fileInfo, id))
      => /\ parentInfoCache[id].name = fileInfo[id].name
         /\ parentInfoCache[id].parents = fileInfo[id].parents

\* ============================================================= initial sync
\* The state after load() on a new account, start() not yet called.
InitSync ==
  /\ InitStoreRest
  /\ InitQueueVars
  /\ InitCallVars
  /\ loaded = TRUE
  /\ loading = FALSE
  /\ pc = [InitPc EXCEPT !["load"] = "l_done"]
  /\ remote \in SyncTrees
  /\ feed = <<>>
  /\ made = 0
  /\ fileInfo = EmptyEngine.fileInfo
  /\ paths = EmptyEngine.paths
  /\ parentInfoCache = EmptyEngine.pic
  /\ disk = EmptyEngine.disk
  /\ base = EmptyEngine
  /\ bare = {}
  /\ tk = [s \in Slots |-> NoTask]
  /\ lastAlone = NoChangeRecord
  /\ dl = NoDownloads
  /\ tmp = [n \in Names |-> "none"]

\* The record a download of the window was called with.
Listed(k) == remote[IF k = "a2" THEN "a" ELSE k]

\* start(): the root record, the folder walk and computePaths() are
\* through; ParallelMapFlow takes the files (fewer than 10: one window) and
\* calls downloadFile for each.
SyncWalk ==
  /\ pc["start"] = "s_walk"
  /\ pc' = [pc EXCEPT !["start"] = "s_window"]
  /\ Becomes(Walked(Engine))
  /\ dl' = [k \in DlTasks |->
              [phase |-> IF Listed(k).id # "none"
                            /\ (k = "a2" => Len(Listed(k).parents) = 2)
                           THEN "begin" ELSE "idle",
               into |-> "tmp"]]
  /\ UNCHANGED <<remote, feed, tk, base, made, lastAlone, tmp>>
  /\ UNCHANGED <<queueVars, callVars>>
  /\ UNCHANGED <<db, srv, fetched, applied, changeToken, changesToExecute,
                 loaded, loading, saving, synced, syncing, closed,
                 watchingChanges, handlingRemoteChange, hasId, savedOnce,
                 changesSinceSave, tchg, snap, obj, restarts, localLeft>>

\* downloadFile(file) ends: it returns (how = "done") or never settles.
DlSettle(k, how) == dl' = [dl EXCEPT ![k].phase = how]

\* downloadFile of a file past mkdirp (d), savePaths being ps: the content
\* is there already and is copied to the other paths, or the temporary
\* file is opened for writing, which creates or truncates it.
DlOpen(k, d, ps) ==
  IF d.err
    THEN Becomes([d EXCEPT !.err = FALSE]) /\ DlSettle(k, "failed")
                                           /\ UNCHANGED tmp
  ELSE IF d.disk[Head(ps)] = Listed(k).md5
    THEN /\ Becomes(CopyEach(d, Head(ps), Tail(ps)))
         /\ DlSettle(k, "done")
         /\ UNCHANGED tmp
  ELSE /\ Becomes(d)
       /\ tmp' = [tmp EXCEPT ![Listed(k).name] = "empty"]
       /\ dl' = [dl EXCEPT ![k] = [phase |-> "open", into |-> "tmp"]]

\* downloadFile(file) from its call to `await delay(80)` or to its return.
DlBegin(k) ==
  /\ dl[k].phase = "begin"
  /\ IF ShouldIgnoreFile(Listed(k))
       THEN /\ DlSettle(k, "done")
            /\ UNCHANGED <<fileInfo, paths, parentInfoCache, disk, bare, tmp>>
       ELSE \E r \in {GetPaths(Engine, Listed(k), Fuel)} :
              IF r.ret = <<>>
                THEN Becomes(r.st) /\ DlSettle(k, "done") /\ UNCHANGED tmp
              ELSE IF Listed(k).folder
                THEN /\ Becomes(MkdirEach(r.st, r.ret, TRUE))
                     /\ DlSettle(k, "done")
                     /\ UNCHANGED tmp
              ELSE DlOpen(k, Mkdirp(r.st, Dirname(Head(r.ret)), {}), r.ret)
  /\ UNCHANGED <<remote, feed, tk, base, made, lastAlone>>
  /\ UNCHANGED <<storeVars, queueVars, callVars>>

\* What a file holds after a stream has written the content md5 into it:
\* another stream's bytes may remain in it.
Written(before, md5) ==
  IF before \in {"empty", md5} THEN {md5} ELSE {md5, "mixed"}

\* The response of drive.files.get is piped into the write stream, which
\* has the temporary file open wherever it is now.
DlWrite(k) ==
  /\ dl[k].phase = "open"
  /\ dl' = [dl EXCEPT ![k].phase = "stream"]
  /\ IF dl[k].into = "tmp"
       THEN /\ \E c \in Written(tmp[Listed(k).name], Listed(k).md5) :
                 tmp' = [tmp EXCEPT ![Listed(k).name] = c]
            /\ UNCHANGED disk
       ELSE /\ \E c \in Written(disk[dl[k].into], Listed(k).md5) :
                 disk' = [disk EXCEPT ![dl[k].into] = c]
            /\ UNCHANGED tmp
  /\ UNCHANGED <<remote, feed, fileInfo, paths, parentInfoCache, bare, tk,
                 base, made, lastAlone>>
  /\ UNCHANGED <<storeVars, queueVars, callVars>>

\* The streams that have the temporary file of name n open.
Sharing(n) ==
  {j \in DlTasks :
     dl[j].phase \in {"open", "stream"} /\ dl[j].into = "tmp"
       /\ Listed(j).name = n}

\* 'end' of the response: the temporary file is renamed onto savePath, for
\* which watcher.ignore was called, and copied to the other paths; when the
\* temporary file is gone fs.rename throws inside the handler and the
\* promise of the download is never settled.
DlEnd(k) ==
  /\ dl[k].phase = "stream"
  /\ IF tmp[Listed(k).name] = "none"
       THEN /\ DlSettle(k, "stuck")
            /\ UNCHANGED <<fileInfo, paths, parentInfoCache, disk, bare, tmp>>
       ELSE /\ \E r \in {GetPaths(Engine, Listed(k), Fuel)} :
                 /\ Becomes(CopyEach(FsWrite(r.st, Head(r.ret),
                                             tmp[Listed(k).name],
                                             {Head(r.ret)}),
                                     Head(r.ret), Tail(r.ret)))
                 /\ dl' = [j \in DlTasks |->
                             IF j = k THEN [dl[j] EXCEPT !.phase = "done"]
                             ELSE IF j \in Sharing(Listed(k).name)
                               THEN [dl[j] EXCEPT !.into = Head(r.ret)]
                             ELSE dl[j]]
            /\ tmp' = [tmp EXCEPT ![Listed(k).name] = "none"]
  /\ UNCHANGED <<remote, feed, tk, base, made, lastAlone>>
  /\ UNCHANGED <<storeVars, queueVars, callVars>>

\* start(): every download of the window has returned; syncing = false,
\* synced = true, then save().
SyncEnd ==
  /\ pc["start"] = "s_window"
  /\ \A k \in DlTasks : dl[k].phase \in {"idle", "done"}
  /\ syncing' = FALSE
  /\ synced' = TRUE
  /\ pc' = [pc EXCEPT !["start"] = "sv_enter"]
  /\ UNCHANGED <<queueVars, reconVars, callVars>>
  /\ UNCHANGED <<db, srv, fetched, applied, changeToken, changesToExecute,
                 loaded, loading, saving, closed, watchingChanges,
                 handlingRemoteChange, hasId, savedOnce, changesSinceSave,
                 tchg, snap, obj, restarts, localLeft>>

NextSync ==
  \/ StartBegin
  \/ StartRoot
  \/ StartToken
  \/ SyncWalk
  \/ \E k \in DlTasks : DlBegin(k)
  \/ \E k \in DlTasks : DlWrite(k)
  \/ \E k \in DlTasks : DlEnd(k)
  \/ SyncEnd
  \/ SaveEnter("start")
  \/ SaveInsert("start")
  \/ SaveUpdate("start")

SpecSync == InitSync /\ [][NextSync]_vars

\* ===================================================== claims on SpecSync
\* The local paths of a file of the remote drive, read off the drive: one
\* in each of its folders.
TreePath(id, i) ==
  IF remote[id].parents[i] = rootId THEN <<remote[id].name>>
  ELSE <<remote[remote[id].parents[i]].name, remote[id].name>>

Downloadable(id) ==
  Has(remote, id) /\ ~remote[id].folder /\ ~ShouldIgnoreFile(remote[id])

\* C13: when start() has returned, every record of the remote drive is in
\* the metadata cache, every downloadable file is on the disk at each of
\* its paths with the content of its md5Checksum, and a change token is
\* held.
C13_StartMaterialisesTree ==
  pc["start"] = "s_done" =>
    /\ \A id \in Ids : Has(remote, id) => fileInfo[id] = remote[id]
    /\ \A id \in Ids :
         Downloadable(id) =>
           \A i \in 1..Len(remote[id].parents) :
             /\ paths[TreePath(id, i)] = id
             /\ disk[TreePath(id, i)] = remote[id].md5
    /\ changeToken # 0

\* C13 witness: start() has returned for a drive with a file in a folder
\* and a second file.
C13_Witness ==
  /\ pc["start"] = "s_done"
  /\ Has(remote, "F") /\ Has(remote, "b")
  /\ Has(remote, "a") /\ remote["a"].parents = <<"R", "F">>
  /\ disk[TreePath("a", 2)] = "m1"

\* C14: the tree walk of start() is only issued once a change token is
\* held.
C14_TokenBeforeWalk ==
  pc["start"] \in {"s_walk", "s_window"} => changeToken # 0

\* C14 witness: the walk has been issued by a start() that had to fetch the
\* token itself.
C14_Witness ==
  pc["start"] = "s_window" /\ ~db.exists /\ changeToken # 0

\* C19: once downloadFile has returned for a downloadable file, the file at
\* its path has the content of the record's md5Checksum.
C19_DownloadedContentMatches ==
  \A id \in Ids \ {rootId} :
    (dl[id].phase = "done" /\ Downloadable(id)) =>
      disk[TreePath(id, 1)] = remote[id].md5

RECURSIVE FanOut(_, _, _)
\* join(pp, info.name) for every pp of getPaths(parentInfo), for the i-th
\* parent of info and the ones after it, in this order; parentInfo is the
\* record getPaths resolves the parent to in state st.
FanOut(st, info, i) ==
  IF i > Len(info.parents) THEN [st |-> st, ret |-> <<>>]
  ELSE Joined(GetPaths(st, ParentInfo(st, info.parents[i], Fuel).info,
                       Fuel).ret,
              info.name, FanOut(st, info, i + 1))

\* C18: getPaths of a record with parents is the list of join(pp, name) for
\* each parent in turn and each pp of getPaths of that parent, so that its
\* length is the sum of the lengths of these; of the root record it is the
\* account folder alone; of null and of a record without parents it is
\* empty.  (For the records of the remote drive and of the cache.)
C18_GetPathsFansOut ==
  \A info \in {remote[id] : id \in Ids} \cup {fileInfo[id] : id \in Ids}
              \cup {NoInfo, RootInfo, FileInfo("x", <<>>)} :
    \A r \in {GetPaths(Engine, info, Fuel)} :
      IF info.id = "none" \/ (info.id # rootId /\ info.parents = <<>>)
        THEN r.ret = <<>>
      ELSE IF info.id = rootId THEN r.ret = << <<>> >>
      ELSE r.ret = FanOut(r.st, info, 1).ret

\* The file a is cached with its two parents, the root and the folder, and
\* computePaths has indexed the two paths getPaths gave for it.
C18_Witness ==
  /\ Has(fileInfo, "a")
  /\ fileInfo["a"].parents = <<"R", "F">>
  /\ paths[<<fileInfo["a"].name>>] = "a"
  /\ paths[<<"x", fileInfo["a"].name>>] = "a"

\* ======================================================= poller and queue
\* The engine of a synced account in its steady state: start() has returned
\* and written its checkpoint, the poller loop runs, the watcher delivers
\* events (here those of added files, whose handler the loop of queue()
\* awaits).
InitRunning ==
  /\ db = [NoDoc EXCEPT !.exists = TRUE, !.written = TRUE, !.changeToken = 1,
                        !.synced = TRUE]
  /\ srv = 0
  /\ fetched = {}
  /\ applied = {}
  /\ changeToken = 1
  /\ changesToExecute = <<>>
  /\ loaded = TRUE
  /\ loading = FALSE
  /\ saving = FALSE
  /\ synced = TRUE
  /\ syncing = FALSE
  /\ closed = FALSE
  /\ watchingChanges = TRUE
  /\ handlingRemoteChange = FALSE
  /\ hasId = TRUE
  /\ savedOnce = TRUE
  /\ changesSinceSave = 0
  /\ pc = [InitPc EXCEPT !["load"] = "l_done", !["start"] = "s_done",
                         !["poller"] = "p_check"]
  /\ tchg = [s \in Slots |-> 0]
  /\ snap = [t \in Threads |-> NoDoc]
  /\ obj = NoDoc
  /\ restarts = 0
  /\ localLeft = MaxLocalSaves

InitClose ==
  /\ InitQueueVars
  /\ InitCallVars
  /\ InitReconVars
  /\ InitRunning

NextClose ==
  \/ PollCheck
  \/ PollFetch
  \/ HandleChangesAwait("poller")
  \/ \E s \in Slots : TaskApply(s)
  \/ LocalHandlerSave
  \/ \E t \in Slots \cup {"poller", "local"} : SaveEnter(t)
  \/ \E t \in Slots \cup {"poller", "local"} : SaveWait(t)
  \/ \E t \in Slots \cup {"poller", "local"} : SaveUpdate(t)
  \/ CloseCall
  \/ \E found \in Finds : WatcherEvent("add", found)
  \/ HandlerEnd
  \/ HandlerThrow
  \/ \E found \in Finds : QueueResume(found)
  \/ QueueCatch

SpecClose == InitClose /\ [][NextClose]_vars

\* ==================================================== claims on SpecClose
\* C22: once closed is set, no step of the process starts a window of
\* remote changes or the handler of a queued local task, and the next loop
\* check of the poller ends its loop.
C22_CloseStopsLoops ==
  [][(closed /\ restarts' = restarts) =>
       /\ \A s \in Slots : pc'[s] = "t_apply" => pc[s] = "t_apply"
       /\ consumer' = "c_await"
            => (consumer = "c_await" /\ Len(queued') >= Len(queued))
       /\ (pc["poller"] = "p_check" /\ pc'["poller"] # "p_check")
            => pc'["poller"] = "p_exit"]_vars

\* The engine is closed while changes that were fetched and a queued local
\* task are pending; the poller and the queue consumer have stopped.
C22_Witness ==
  /\ closed
  /\ pc["poller"] = "p_exit"
  /\ changesToExecute # <<>>
  /\ consumer = "c_idle"
  /\ queued # <<>>

notifyFrame == <<db, srv, fetched, applied, changeToken, changesToExecute,
                 loaded, loading, saving, synced, closed, watchingChanges,
                 hasId, savedOnce, changesSinceSave, pc, tchg, snap, obj,
                 restarts, localLeft, queued, consumer, cur, removing,
                 trashing, eventsLeft, loops, started, reconVars, batchVars,
                 retryVars, pollVars, otherVars>>

\* notifyChanges() with a drop of the handlingChanges test.
NotifyUnguarded(busy) ==
  IF lastChanges # NoChanges
    THEN /\ emits < MaxEmits
         /\ emits' = emits + 1
         /\ lastChanges' = NoChanges
    ELSE UNCHANGED <<lastChanges, emits>>

\* notifyChanges(), busy being the value of the handlingChanges getter when
\* it is called: nothing while a flag is set; else a non-empty summary is
\* emitted and replaced by {}.
NotifyChanges(busy) ==
  IF ~busy /\ lastChanges # NoChanges
    THEN /\ emits < MaxEmits
         /\ emits' = emits + 1
         /\ lastChanges' = NoChanges
    ELSE UNCHANGED <<lastChanges, emits>>

\* set syncing(value)
SetSyncing(value) ==
  /\ syncing # value
  /\ syncing' = value
  /\ NotifyChanges(value \/ handlingLocalChange \/ handlingRemoteChange)
  /\ UNCHANGED <<handlingLocalChange, handlingRemoteChange, notifyFrame>>

\* set handlingLocalChange(value)
SetHandlingLocalChange(value) ==
  /\ handlingLocalChange # value
  /\ handlingLocalChange' = value
  /\ NotifyChanges(syncing \/ value \/ handlingRemoteChange)
  /\ UNCHANGED <<syncing, handlingRemoteChange, notifyFrame>>

\* set handlingRemoteChange(value)
SetHandlingRemoteChange(value) ==
  /\ handlingRemoteChange # value
  /\ handlingRemoteChange' = value
  /\ NotifyChanges(syncing \/ handlingLocalChange \/ value)
  /\ UNCHANGED <<syncing, handlingLocalChange, notifyFrame>>

\* logChange(type, true); logChange(type, false) changes nothing.
LogChange(type) ==
  /\ lastChanges[type] < MaxLogged
  /\ lastChanges' = [lastChanges EXCEPT ![type] = @ + 1]
  /\ UNCHANGED <<emits, syncing, handlingLocalChange, handlingRemoteChange,
                 notifyFrame>>

\* this.notifyChanges() called on its own: the end of handleChanges(), and
\* a setter that finds `undefined` in place of the value false.
NotifyCall ==
  /\ NotifyChanges(syncing \/ handlingLocalChange \/ handlingRemoteChange)
  /\ UNCHANGED <<syncing, handlingLocalChange, handlingRemoteChange,
                 notifyFrame>>

NextNotify ==
  \/ \E value \in BOOLEAN : SetSyncing(value)
  \/ \E value \in BOOLEAN : SetHandlingLocalChange(value)
  \/ \E value \in BOOLEAN : SetHandlingRemoteChange(value)
  \/ \E type \in ChangeTypes : LogChange(type)
  \/ NotifyCall

SpecNotify == InitStore /\ [][NextNotify]_vars

\* C23: a filesChanged event is emitted only at a moment when none of
\* syncing, handlingLocalChange and handlingRemoteChange is set and the
\* summary of the changes is not empty, and the summary is empty once it has
\* been emitted.
C23_EmitsWhenIdle ==
  [][emits' # emits =>
       /\ ~syncing' /\ ~handlingLocalChange' /\ ~handlingRemoteChange'
       /\ lastChanges # NoChanges
       /\ lastChanges' = NoChanges]_vars

\* An event has been emitted, and a change logged after it waits under a
\* set flag for the next one.
C23_Witness ==
  /\ emits = 1
  /\ lastChanges["updated"] = 1
  /\ handlingRemoteChange
  /\ ~syncing /\ ~handlingLocalChange

\* ========================================================= getFileInfoBatch
\* One call of getFileInfoBatch on an engine that has walked a part of the
\* remote drive.  The fetches are followed in the order of the ids.
RECURSIVE FetchEach(_, _, _)

\* The ids in a fixed order.
IdSeq == <<"R", "F", "a", "b">>

\* idsToFetch
IdsToFetch(st) ==
  SelectSeq(IdSeq, LAMBDA id : id \in fileIds /\ ~Has(st.fileInfo, id))

\* `results.set(fileId, fileInfo)` for the fetch g of id.
SetEntry(g, id, got) == [st |-> g.st, got |-> [got EXCEPT ![id] = g.info]]

FetchNext(r, ids) == FetchEach(r.st, ids, r.got)

\* fetchPromises and the forEach over settledResults: an id whose
\* getFileInfo throws is skipped; the others set the record, or null for a
\* 404.
FetchEach(st, ids, got) ==
  IF ids = <<>> THEN [st |-> st, got |-> got]
  ELSE IF Head(ids) \in failing THEN FetchEach(st, Tail(ids), got)
  ELSE FetchNext(SetEntry(GetFileInfo(st, Head(ids), Fuel), Head(ids), got),
                 Tail(ids))

\* "Add cached items to results"
AddCached(r) ==
  [st |-> r.st,
   got |-> [id \in Ids |->
              IF id \in fileIds /\ r.got[id] = NoEntry
                   /\ Has(r.st.fileInfo, id)
                THEN r.st.fileInfo[id] ELSE r.got[id]]]

\* getFileInfoBatch(fileIds).  Returns [st, got].
GetFileInfoBatch(st) ==
  IF IdsToFetch(st) = <<>>
    THEN [st |-> st,
          got |-> [id \in Ids |->
                     IF id \in fileIds THEN st.fileInfo[id] ELSE NoEntry]]
    ELSE AddCached(FetchEach(st, IdsToFetch(st), NoResults.entry))

\* What the engine holds when the call is made: the root only, or the
\* root and the folder.
BatchEngines ==
  {StoreFileInfo(EmptyEngine, RootInfo, Fuel).st, WalkedRootOnly(EmptyEngine)}

InitBatch ==
  /\ InitStoreRest
  /\ InitQueueVars
  /\ InitNotifyVars
  /\ InitRetryVars
  /\ InitPollVars
  /\ InitOtherVars
  /\ loaded = TRUE
  /\ loading = FALSE
  /\ pc = [InitPc EXCEPT !["load"] = "l_done"]
  /\ remote \in SyncTrees
  /\ feed = <<>>
  /\ made = 0
  /\ \E st \in BatchEngines :
       /\ fileInfo = st.fileInfo
       /\ paths = st.paths
       /\ parentInfoCache = st.pic
       /\ disk = st.disk
       /\ base = st
  /\ bare = {}
  /\ tk = [s \in Slots |-> NoTask]
  /\ lastAlone = NoChangeRecord
  /\ dl = NoDownloads
  /\ tmp = [n \in Names |-> "none"]
  /\ fileIds \in SUBSET Ids \ {{}}
  /\ failing \in SUBSET fileIds
  /\ results = NoResults

\* The call and its return.
BatchCall ==
  /\ ~results.returned
  /\ \E r \in {GetFileInfoBatch(Engine)} :
       /\ fileInfo' = r.st.fileInfo
       /\ paths' = r.st.paths
       /\ parentInfoCache' = r.st.pic
       /\ results' = [returned |-> TRUE, entry |-> r.got]
  /\ UNCHANGED <<remote, feed, disk, bare, tk, base, made, lastAlone, dl, tmp>>
  /\ UNCHANGED <<storeVars, queueVars, notifyVars, retryVars, pollVars,
                 otherVars,
                 fileIds, failing>>

NextBatch == BatchCall

SpecBatch == InitBatch /\ [][NextBatch]_vars

\* C25: the Map getFileInfoBatch returns has an entry for every requested
\* id: the record of that id, or null when its fetch failed or the remote
\* reported not-found.
C25_EntryForEveryId ==
  results.returned =>
    \A id \in fileIds :
      \/ results.entry[id].id = id
      \/ /\ results.entry[id] = NoInfo
         /\ (id \in failing \/ ~Has(remote, id))

\* ================================================================= tryTwice
\* One call of tryTwice(fn).
InitRetry ==
  /\ InitStoreRest
  /\ InitQueueVars
  /\ InitReconVars
  /\ InitNotifyVars
  /\ InitBatchVars
  /\ InitPollVars
  /\ InitOtherVars
  /\ loaded = TRUE
  /\ loading = FALSE
  /\ pc = [InitPc EXCEPT !["load"] = "l_done"]
  /\ fn \in Outcomes \X Outcomes
  /\ calls = 0
  /\ ret = [at |-> "first", v |-> "none"]

\* `return await fn()` of either attempt: the value is returned, the error
\* thrown.
Settled(o) ==
  [at |-> IF o \in Values THEN "returned" ELSE "thrown", v |-> o]

\* A catch block that swallows every error.
TryFirstRetriesAll ==
  /\ ret.at = "first"
  /\ calls' = calls + 1
  /\ ret' = IF fn[1] \in Values THEN Settled(fn[1])
            ELSE [at |-> "delay", v |-> "none"]
  /\ UNCHANGED <<fn, storeVars, queueVars, reconVars, notifyVars, batchVars,
                 pollVars, otherVars>>

\* The first attempt settles: its value is returned; its error is thrown
\* again unless its code is ECONNRESET, and then delay(2000) is awaited.
TryFirst ==
  /\ ret.at = "first"
  /\ calls' = calls + 1
  /\ ret' = IF fn[1] = "ECONNRESET" THEN [at |-> "delay", v |-> "none"]
            ELSE Settled(fn[1])
  /\ UNCHANGED <<fn, storeVars, queueVars, reconVars, notifyVars, batchVars,
                 pollVars, otherVars>>

\* The two seconds are over: fn is invoked again.
TryAgain ==
  /\ ret.at = "delay"
  /\ calls' = calls + 1
  /\ ret' = [at |-> "second", v |-> "none"]
  /\ UNCHANGED <<fn, storeVars, queueVars, reconVars, notifyVars, batchVars,
                 pollVars, otherVars>>

\* The second attempt settles.
TrySecond ==
  /\ ret.at = "second"
  /\ ret' = Settled(fn[2])
  /\ UNCHANGED <<fn, calls, storeVars, queueVars, reconVars, notifyVars,
                 batchVars, pollVars, otherVars>>

NextRetry == TryFirst \/ TryAgain \/ TrySecond

SpecRetry == InitRetry /\ [][NextRetry]_vars

\* C26: tryTwice invokes fn a second time exactly when the first invocation
\* fails with ECONNRESET and never a third time; an other error of the first
\* attempt is thrown without a retry; the result or error of the second
\* attempt is returned or thrown unchanged.
C26_RetriesOnceOnReset ==
  /\ calls <= 2
  /\ calls = 2 => fn[1] = "ECONNRESET"
  /\ ret.at \in {"returned", "thrown"} =>
       /\ calls = (IF fn[1] = "ECONNRESET" THEN 2 ELSE 1)
       /\ ret = Settled(fn[calls])

\* The retry was rejected with a connection reset as well: it is thrown.
C26_Witness ==
  /\ ret = [at |-> "thrown", v |-> "ECONNRESET"]
  /\ calls = 2
  /\ fn = <<"ECONNRESET", "ECONNRESET">>

\* ========================================================= polling interval
\* The loop of watchChanges with its local pollDelay, in the steady state:
\* the engine is synced; start() may run again (syncing) and close() may be
\* called at any await.
pollFrame == <<db, srv, fetched, applied, changeToken, changesToExecute,
               loaded, loading, saving, synced, watchingChanges,
               handlingRemoteChange, hasId, savedOnce, changesSinceSave, pc,
               tchg, snap, obj, restarts, localLeft, queueVars, reconVars,
               notifyVars, batchVars, retryVars, otherVars>>

\* The head of `while (!this.closed)` and the test `!syncing && synced`:
\* the loop ends, or handleNewChanges() is called and getNewChanges awaited,
\* or the interval is set to initialDelay and awaited.
LoopTop ==
  /\ poll.at = "top"
  /\ IF closed
       THEN /\ poll' = [poll EXCEPT !.at = "exit"]
            /\ UNCHANGED pollDelay
     ELSE IF ~syncing /\ synced
       THEN /\ poll' = [NoPoll EXCEPT !.at = "fetch"]
            /\ UNCHANGED pollDelay
     ELSE /\ poll' = [NoPoll EXCEPT !.at = "sleep"]
          /\ pollDelay' = initialDelay
  /\ UNCHANGED <<closed, syncing, pollFrame>>

\* getNewChanges() answers with n changes: changesCount = n, and
\* handleChanges() comes to the head of its loop.
LoopFetched(n) ==
  /\ poll.at = "fetch"
  /\ poll' = [poll EXCEPT !.at = "handle", !.fetched = n, !.left = n]
  /\ UNCHANGED <<pollDelay, closed, syncing, pollFrame>>

\* handleChanges: a window of pending changes is taken and handleChange is
\* called for each; k of them report a change.
LoopWindow(k) ==
  /\ poll.at = "handle"
  /\ poll.left > 0
  /\ ~closed
  /\ k <= Min(poll.left, MaxWindow)
  /\ poll' = [poll EXCEPT !.left = @ - Min(poll.left, MaxWindow),
                          !.handled = @ + Min(poll.left, MaxWindow),
                          !.changed = @ + k]
  /\ UNCHANGED <<pollDelay, closed, syncing, pollFrame>>

\* The interval after a poll, without the cap.
NextDelayUncapped ==
  IF poll.fetched > 0 THEN minDelay ELSE Backoff(pollDelay)

\* `changesDetected ? minDelay : Math.min(pollDelay * 1.5, maxDelay)`,
\* changesDetected being `changesCount > 0`.
NextDelay ==
  IF poll.fetched > 0 THEN minDelay ELSE Min(Backoff(pollDelay), maxDelay)

\* handleChanges() leaves its loop (nothing pending, or closed) and
\* handleNewChanges() returns: the interval is set and awaited.
LoopReturn ==
  /\ poll.at = "handle"
  /\ poll.left = 0 \/ closed
  /\ pollDelay' = NextDelay
  /\ poll' = [poll EXCEPT !.at = "sleep"]
  /\ UNCHANGED <<closed, syncing, pollFrame>>

\* delay(pollDelay) is over.
LoopWake ==
  /\ poll.at = "sleep"
  /\ poll' = [poll EXCEPT !.at = "top"]
  /\ UNCHANGED <<pollDelay, closed, syncing, pollFrame>>

\* close()
LoopClose ==
  /\ ~closed
  /\ closed' = TRUE
  /\ UNCHANGED <<pollDelay, poll, syncing, pollFrame>>

\* start() sets syncing, and resets it when it is through.
LoopSyncing ==
  /\ ~closed
  /\ syncing' = ~syncing
  /\ UNCHANGED <<pollDelay, poll, closed, pollFrame>>

NextPoll ==
  \/ LoopTop
  \/ \E n \in 0..MaxPolled : LoopFetched(n)
  \/ \E k \in 0..MaxWindow : LoopWindow(k)
  \/ LoopReturn
  \/ LoopWake
  \/ LoopClose
  \/ LoopSyncing

\* The engine is synced and its poller runs (InitClose).
SpecPoll == InitClose /\ [][NextPoll]_vars

\* C27: after each steady-state poll the interval is the minimum (2 s) if a
\* change was applied in that poll (handleChange was called for it), and
\* otherwise 1.5 times what it was, capped at the maximum (30 s); the
\* interval always lies between 2 s and 30 s.
C27_IntervalAfterPoll ==
  /\ [](minDelay <= pollDelay /\ pollDelay <= maxDelay)
  /\ [][(poll.at = "handle" /\ poll'.at = "sleep" /\ ~closed)
          => pollDelay' = (IF poll.handled > 0 THEN minDelay
                           ELSE Min(Backoff(pollDelay), maxDelay))]_vars

\* A poll whose two changes were handled, and both reported as no change,
\* has set the interval to the minimum.
C27_Witness ==
  /\ poll.at = "sleep"
  /\ poll.handled = 2 /\ poll.changed = 0
  /\ pollDelay = minDelay
  /\ ~closed

\* ================================================ poller with failing calls
\* The steady state of InitClose, with the calls of the poller able to
\* throw; the engine is not closed (SpecClose has close()).  filesChanged
\* has nothing to report in this specification (logChange is not modelled
\* here), so that the notifyChanges() call of handleChanges changes
\* nothing.
InitWatch ==
  /\ InitQueueVars
  /\ InitReconVars
  /\ InitNotifyVars
  /\ InitBatchVars
  /\ InitRetryVars
  /\ InitPollVars
  /\ InitUpdVars
  /\ InitRunning
  /\ hc = [c \in 1..MaxFeed |-> NoCall]
  /\ win = <<>>
  /\ watchers = 1
  /\ rejected = 0

\* What the steps of this section leave alone.
watchFrame == <<queueVars, reconVars, notifyVars, batchVars, retryVars,
                pollVars, updVars, loaded, loading, synced, syncing, hasId, tchg, snap,
                obj, restarts, localLeft>>

\* The handleChange calls that are in progress.
Applying == {c \in 1..MaxFeed : hc[c].at = "run"}

\* The calls that threw: the handleChange calls whose promise is rejected
\* and not yet awaited, and those that ended a loop.
Thrown ==
  rejected + Cardinality({c \in Range(win) : hc[c].at = "failed"})

\* watchChanges() that enters its loop whatever watchingChanges is.
WatchStartUnguarded(pcBase) ==
  /\ watchingChanges' = TRUE
  /\ watchers' = watchers + 1
  /\ pc' = [pcBase EXCEPT !["poller"] =
              IF changeToken = 0 THEN "p_token" ELSE "p_check"]

\* this.watchChanges() called from save(): past finishLoading, a call that
\* finds watchingChanges false enters the try block and its loop.
WatchStart(pcBase) ==
  IF watchingChanges
    THEN /\ pc' = pcBase
         /\ UNCHANGED <<watchingChanges, watchers>>
    ELSE /\ watchingChanges' = TRUE
         /\ watchers' = watchers + 1
         /\ pc' = [pcBase EXCEPT !["poller"] =
                     IF changeToken = 0 THEN "p_token" ELSE "p_check"]

\* The head of `while (!this.closed)`: the loop ends when the engine is
\* closed (watchingChanges stays set).
WatchCheck ==
  /\ pc["poller"] = "p_check"
  /\ IF closed
       THEN /\ pc' = [pc EXCEPT !["poller"] = "p_exit"]
            /\ watchers' = watchers - 1
       ELSE /\ pc' = [pc EXCEPT !["poller"] =
                        IF ~syncing /\ synced THEN "p_fetch" ELSE "p_check"]
            /\ UNCHANGED watchers
  /\ UNCHANGED <<db, srv, fetched, applied, changeToken, changesToExecute,
                 saving, closed, watchingChanges, handlingRemoteChange,
                 savedOnce, changesSinceSave, hc, win, rejected, watchFrame>>

\* The head of the while loop of handleChanges, run by the poller with the
\* pending list cte: the calls of a window are made, or the loop ends and
\* the "save regularly" test runs.
WatchHead(cte) ==
  IF cte # <<>> /\ ~closed
    THEN /\ handlingRemoteChange' = TRUE
         /\ changesToExecute' =
              SubSeq(cte, Min(Len(cte), MaxWindow) + 1, Len(cte))
         /\ win' = SubSeq(cte, 1, Min(Len(cte), MaxWindow))
         /\ hc' = [c \in 1..MaxFeed |->
                     IF \E i \in 1..Min(Len(cte), MaxWindow) : cte[i] = c
                       THEN [at |-> "run", snap |-> NoDoc]
                       ELSE hc[c]]
         /\ pc' = [pc EXCEPT !["poller"] = "p_await"]
    ELSE /\ handlingRemoteChange' = FALSE
         /\ changesToExecute' = cte
         /\ win' = <<>>
         /\ \E elapsed \in BOOLEAN :
              pc' = [pc EXCEPT !["poller"] =
                       IF elapsed /\ changesSinceSave > 0
                         THEN "sv_enter" ELSE "p_check"]
         /\ UNCHANGED hc

\* handleNewChanges(): getNewChanges() answers; changesToExecute is
\* replaced and handleChanges() begins.
WatchFetch ==
  /\ pc["poller"] = "p_fetch"
  /\ \E n \in srv..MaxFeed :
       /\ srv' = n
       /\ changeToken' = n + 1
       /\ fetched' = fetched \cup Range(ChangesSince(changeToken, n))
       /\ WatchHead(ChangesSince(changeToken, n))
  /\ UNCHANGED <<db, applied, saving, closed, watchingChanges, savedOnce,
                 changesSinceSave, watchers, rejected, watchFrame>>

\* A catch of watchChanges that leaves handlingRemoteChange alone.
WatchCatchKeepsFlag ==
  /\ watchingChanges' = FALSE
  /\ UNCHANGED handlingRemoteChange
  /\ pc' = [pc EXCEPT !["poller"] = "p_off"]
  /\ watchers' = watchers - 1
  /\ rejected' = rejected + 1
  /\ win' = <<>>
  /\ UNCHANGED <<db, srv, fetched, applied, changeToken, changesToExecute,
                 saving, closed, savedOnce, changesSinceSave, hc, watchFrame>>

\* The catch of watchChanges: both flags are reset and the error is thrown
\* on; the call is over.
WatchCatch ==
  /\ watchingChanges' = FALSE
  /\ handlingRemoteChange' = FALSE
  /\ pc' = [pc EXCEPT !["poller"] = "p_off"]
  /\ watchers' = watchers - 1
  /\ rejected' = rejected + 1
  /\ win' = <<>>
  /\ UNCHANGED <<db, srv, fetched, applied, changeToken, changesToExecute,
                 saving, closed, savedOnce, changesSinceSave, hc, watchFrame>>

\* getNewChanges() throws (changes.list failed twice).
WatchFetchFail ==
  /\ pc["poller"] = "p_fetch"
  /\ Thrown < MaxThrows
  /\ WatchCatch

\* `for (const result of results) await result`: the promise awaited is
\* resolved; after the last one the while loop tests its condition again.
WatchAwait ==
  /\ pc["poller"] = "p_await"
  /\ win # <<>>
  /\ hc[Head(win)].at = "done"
  /\ IF Len(win) > 1
       THEN /\ win' = Tail(win)
            /\ UNCHANGED <<changesToExecute, handlingRemoteChange, hc, pc>>
       ELSE WatchHead(changesToExecute)
  /\ UNCHANGED <<db, srv, fetched, applied, changeToken, saving, closed,
                 watchingChanges, savedOnce, changesSinceSave, watchers,
                 rejected, watchFrame>>

\* The promise awaited is rejected: handleChanges and handleNewChanges
\* throw, the loop is left through the catch.  The other calls of the
\* window go on.
WatchThrow ==
  /\ pc["poller"] = "p_await"
  /\ win # <<>>
  /\ hc[Head(win)].at = "failed"
  /\ WatchCatch

\* handleChange(nextChange) completes and reports whether it changed
\* anything; a change is followed by save().
WatchTaskApply(c) ==
  /\ hc[c].at = "run"
  /\ applied' = applied \cup {c}
  /\ \E changed \in BOOLEAN :
       IF changed
         THEN /\ hc' = [hc EXCEPT ![c].at = "sv_enter"]
              /\ UNCHANGED changesSinceSave
         ELSE /\ hc' = [hc EXCEPT ![c].at = "done"]
              /\ changesSinceSave' = changesSinceSave + 1
  /\ UNCHANGED <<db, srv, fetched, changeToken, changesToExecute, saving,
                 closed, watchingChanges, handlingRemoteChange, savedOnce, pc,
                 win, watchers, rejected, watchFrame>>

\* handleChange(nextChange) throws: a filesystem or remote call failed.
WatchTaskFail(c) ==
  /\ hc[c].at = "run"
  /\ Thrown < MaxThrows
  /\ hc' = [hc EXCEPT ![c].at = "failed"]
  /\ UNCHANGED <<db, srv, fetched, applied, changeToken, changesToExecute,
                 saving, closed, watchingChanges, handlingRemoteChange,
                 savedOnce, changesSinceSave, pc, win, watchers, rejected,
                 watchFrame>>

\* save() of a window call: it waits for a load or save in flight, or takes
\* saving, builds the saveObject and issues db.update.
WatchTaskSaveEnter(c) ==
  /\ hc[c].at = "sv_enter"
  /\ IF Busy
       THEN /\ hc' = [hc EXCEPT ![c].at = "sv_wait"]
            /\ UNCHANGED saving
       ELSE /\ saving' = TRUE
            /\ hc' = [hc EXCEPT ![c] = [at |-> "sv_update",
                                       snap |-> SaveObject]]
  /\ UNCHANGED <<db, srv, fetched, applied, changeToken, changesToExecute,
                 closed, watchingChanges, handlingRemoteChange, savedOnce,
                 changesSinceSave, pc, win, watchers, rejected, watchFrame>>

\* finishSaveOperation() of a window call returns.
WatchTaskSaveWait(c) ==
  /\ hc[c].at = "sv_wait"
  /\ ~Busy
  /\ hc' = [hc EXCEPT ![c].at = "done"]
  /\ UNCHANGED <<db, srv, fetched, applied, changeToken, changesToExecute,
                 saving, closed, watchingChanges, handlingRemoteChange,
                 savedOnce, changesSinceSave, pc, win, watchers, rejected,
                 watchFrame>>

\* save() of a window call: db.update answers; bookkeeping, watchChanges(),
\* saving = false.
WatchTaskSaveUpdate(c) ==
  /\ hc[c].at = "sv_update"
  /\ db' = hc[c].snap
  /\ savedOnce' = TRUE
  /\ changesSinceSave' = 0
  /\ WatchStart(pc)
  /\ saving' = FALSE
  /\ hc' = [hc EXCEPT ![c] = [at |-> "done", snap |-> NoDoc]]
  /\ UNCHANGED <<srv, fetched, applied, changeToken, changesToExecute, closed,
                 handlingRemoteChange, win, rejected, watchFrame>>

\* save() of the poller's handleChanges or of a local handler: db.update
\* answers.
WatchSaveUpdate(t) ==
  /\ pc[t] = "sv_update"
  /\ db' = snap[t]
  /\ savedOnce' = TRUE
  /\ changesSinceSave' = 0
  /\ WatchStart([pc EXCEPT ![t] = AfterSave(t)])
  /\ saving' = FALSE
  /\ snap' = [snap EXCEPT ![t] = NoDoc]
  /\ UNCHANGED <<srv, fetched, applied, changeToken, changesToExecute, closed,
                 handlingRemoteChange, hc, win, rejected>>
  /\ UNCHANGED <<queueVars, reconVars, notifyVars, batchVars, retryVars,
                 pollVars, updVars, loaded, loading, synced, syncing, hasId,
                 tchg, obj, restarts, localLeft>>

NextWatch ==
  \/ WatchCheck
  \/ WatchFetch
  \/ WatchFetchFail
  \/ WatchAwait
  \/ WatchThrow
  \/ \E c \in 1..MaxFeed : WatchTaskApply(c)
  \/ \E c \in 1..MaxFeed : WatchTaskFail(c)
  \/ \E c \in 1..MaxFeed : WatchTaskSaveEnter(c)
  \/ \E c \in 1..MaxFeed : WatchTaskSaveWait(c)
  \/ \E c \in 1..MaxFeed : WatchTaskSaveUpdate(c)
  \/ LocalHandlerSave
  \/ \E t \in {"poller", "local"} : SaveEnter(t)
  \/ \E t \in {"poller", "local"} : SaveWait(t)
  \/ \E t \in {"poller", "local"} : WatchSaveUpdate(t)

SpecWatch == InitWatch /\ [][NextWatch]_vars

\* ==================================================== claims on SpecWatch
\* C31: at most one watchChanges call is inside its loop at any time, also
\* after a loop was left through the catch and a later save() started a
\* new one.
C31_OnePollerLoop == watchers <= 1

\* C31 witness: a loop ended with an error, a save() started another and
\* that one is awaiting a window.
C31_Witness ==
  /\ rejected = 1
  /\ watchers = 1
  /\ watchingChanges
  /\ pc["poller"] = "p_await"

\* The poller stands where a call of its try block has thrown: the promise
\* of the window it awaits is rejected.
ThrowAwaited ==
  /\ pc["poller"] = "p_await"
  /\ win # <<>>
  /\ hc[Head(win)].at = "failed"

\* C32: when fetching or applying changes throws inside the poller, the
\* loop is over (it does not poll again), watchingChanges and
\* handlingRemoteChange are false and the watchChanges call is rejected
\* with the error; a loop ends with a rejection in no other way.
C32_PollerStopsOnError ==
  /\ [][(ThrowAwaited /\ pc'["poller"] # pc["poller"])
          => (/\ pc'["poller"] = "p_off"
              /\ ~watchingChanges' /\ ~handlingRemoteChange'
              /\ rejected' = rejected + 1
              /\ watchers' = watchers - 1)]_vars
  /\ [][rejected' # rejected
          => (/\ pc["poller"] \in {"p_fetch", "p_await"}
              /\ pc'["poller"] = "p_off"
              /\ ~watchingChanges' /\ ~handlingRemoteChange'
              /\ changeToken' = changeToken /\ fetched' = fetched)]_vars
  /\ [](pc["poller"] = "p_off" => ~watchingChanges)

\* C32 witness: a handleChange call of the window threw, the loop has ended
\* with the error and no other loop was started.
C32_Witness ==
  /\ rejected = 1
  /\ pc["poller"] = "p_off"
  /\ \E c \in 1..MaxFeed : hc[c].at = "failed"
  /\ ~watchingChanges /\ ~handlingRemoteChange

\* C33: never more handleChange calls are in progress than one window
\* holds (10 in the source), also after a window was abandoned and a new
\* poller began another.
C33_WindowBound == Cardinality(Applying) <= MaxWindow

\* C38: when handleNewChanges replaces changesToExecute with the list it
\* fetched, changesToExecute holds no change: every change fetched earlier
\* was handed to handleChange.
C38_NoPendingDiscarded ==
  [][(pc["poller"] = "p_fetch" /\ pc'["poller"] # "p_fetch"
      /\ rejected' = rejected)
       => changesToExecute = <<>>]_vars

\* ======================================================= local file changed
\* The contents a user writes.
Contents == {"m1", "m2", "m3"}

\* What the steps of this section leave alone.
updFrame == <<storeVars, queueVars, batchVars, retryVars, pollVars,
              watchVars, emits, feed, tk, base, made, lastAlone, dl, tmp, ig,
              sc>>

\* The user writes new content to a file of the folder; the watcher will
\* report it.
LocalWrite(p, m) ==
  /\ upd.edits < MaxEdits
  /\ IsFile(disk[p])
  /\ m # disk[p]
  /\ disk' = [disk EXCEPT ![p] = m]
  /\ upd' = [upd EXCEPT !.events = @ \cup {p}, !.edits = @ + 1]
  /\ UNCHANGED <<remote, fileInfo, paths, parentInfoCache, bare, lastChanges,
                 updFrame>>

\* The queue calls onLocalFileUpdated(src) for a file that is on the disk
\* and in the index, with a record in the cache (every other path leads to
\* onLocalFileAdded or to a return): the call stands at `await md5file`,
\* unless shouldIgnoreFile makes it return.
UpdBegin(src) ==
  /\ upd.at = "idle"
  /\ src \in upd.events
  /\ IsFile(disk[src])
  /\ paths[src] # "none"
  /\ Has(fileInfo, paths[src])
  /\ upd' = IF ShouldIgnoreFile(fileInfo[paths[src]])
              THEN [upd EXCEPT !.events = @ \ {src}]
              ELSE [upd EXCEPT !.events = @ \ {src}, !.at = "md5",
                               !.src = src, !.id = paths[src],
                               !.before = fileInfo[paths[src]]]
  /\ UNCHANGED <<remote, fileInfo, paths, parentInfoCache, disk, bare,
                 lastChanges, updFrame>>

\* md5file answers: the call returns when the cached md5Checksum is the
\* computed one; otherwise `info.md5Checksum = computedmd5` writes into the
\* cached record and files.update is issued.
UpdHashed ==
  /\ upd.at = "md5"
  /\ IsFile(disk[upd.src])
  /\ IF fileInfo[upd.id].md5 = disk[upd.src]
       THEN /\ upd' = [upd EXCEPT !.at = "idle"]
            /\ UNCHANGED fileInfo
       ELSE /\ upd' = [upd EXCEPT !.at = "update", !.md5 = disk[upd.src]]
            /\ fileInfo' = [fileInfo EXCEPT ![upd.id].md5 = disk[upd.src]]
  /\ UNCHANGED <<remote, paths, parentInfoCache, disk, bare, lastChanges,
                 updFrame>>

\* The aliases of onLocalFileUpdated: the content of src is copied to every
\* other path of the record.
CopyAliases(r, src) ==
  CopyEach(r.st, src, SelectSeq(r.ret, LAMBDA q : q # src))

\* files.update answers with the record of the new content: it is stored,
\* the other paths of the file get the content, logChange counts an update.
\* (The save() that ends the call is not followed here.)
UpdDone ==
  /\ upd.at = "update"
  /\ Has(remote, upd.id)
  /\ remote' = [remote EXCEPT ![upd.id].md5 = upd.md5, ![upd.id].mtime = @ + 1]
  /\ \E st \in {CopyAliases(GetPaths(StoreFileInfo(Engine, remote'[upd.id],
                                                   Fuel).st,
                                     remote'[upd.id], Fuel), upd.src)} :
       /\ fileInfo' = st.fileInfo
       /\ paths' = st.paths
       /\ parentInfoCache' = st.pic
       /\ disk' = st.disk
       /\ bare' = st.bare
       /\ lastChanges' = IF st.err THEN lastChanges
                         ELSE [lastChanges EXCEPT !["updated"] = @ + 1]
  /\ upd' = [upd EXCEPT !.at = "idle"]
  /\ UNCHANGED updFrame

\* files.update fails twice: tryTwice throws and the call is rejected.
UpdFail ==
  /\ upd.at = "update"
  /\ upd' = [upd EXCEPT !.at = "idle"]
  /\ UNCHANGED <<remote, fileInfo, paths, parentInfoCache, disk, bare,
                 lastChanges, updFrame>>

NextUpdate ==
  \/ \E p \in AllPaths, m \in Contents : LocalWrite(p, m)
  \/ \E src \in AllPaths : UpdBegin(src)
  \/ UpdHashed
  \/ UpdDone
  \/ UpdFail

SpecUpdate == InitRecon /\ [][NextUpdate]_vars

\* C34: a cached record changes only by being replaced with a record the
\* remote returned: when updateContent fails, the cached record is the one
\* of before the event, and a change event is ignored as unchanged only when
\* the remote file has the content that is on the disk.
C34_CacheKeptOnFailedUpdate ==
  /\ [][(upd.at = "update" /\ upd'.at = "idle" /\ remote' = remote)
          => fileInfo'[upd.id] = upd.before]_vars
  /\ [][(upd.at = "md5" /\ upd'.at = "idle")
          => remote[upd.id].md5 = disk[upd.src]]_vars

\* ========================================================== ignore registry
\* The engine's writes and the registry of the watcher.  The folder holds
\* the tree of an earlier run, some of its files missing, and the records of
\* the walk are stored: downloadFile is called as ParallelMapFlow and
\* addFileLocally call it, removeFileLocally as handleChange calls it.
Missing(d, gone) == [p \in AllPaths |-> IF p \in gone THEN "none" ELSE d[p]]

InitIgnore ==
  /\ InitStoreRest
  /\ InitQueueVars
  /\ InitCallVars
  /\ loaded = TRUE
  /\ loading = FALSE
  /\ pc = [InitPc EXCEPT !["load"] = "l_done"]
  /\ remote \in Trees
  /\ feed = <<>>
  /\ made = 0
  /\ \E st \in {SyncedState} :
       /\ fileInfo = st.fileInfo
       /\ paths = st.paths
       /\ parentInfoCache = st.pic
       /\ disk \in {Missing(st.disk, gone) :
                      gone \in SUBSET {p \in AllPaths : IsFile(st.disk[p])}}
       /\ base = st
  /\ bare = {}
  /\ tk = [s \in Slots |-> NoTask]
  /\ lastAlone = NoChangeRecord
  /\ dl = NoDownloads
  /\ tmp = [n \in Names |-> "none"]

\* What the steps of this section leave alone.
ignFrame == <<storeVars, queueVars, notifyVars, batchVars, retryVars,
              pollVars, watchVars, upd, sc, remote, feed, tk, base, made,
              lastAlone, dl, tmp>>

\* watcher.ignore(p) for every path p of ps: one more token for p.
Ignore(g, ps) ==
  [g EXCEPT !.tokens = [p \in AllPaths |->
                          IF p \in ps THEN g.tokens[p] + 1 ELSE g.tokens[p]]]

\* The filesystem has an event for every path of ps, caused by who.
Emit(g, ps, who) ==
  [g EXCEPT !.evq = [p \in AllPaths |->
                       IF p \in ps THEN Append(g.evq[p], who) ELSE g.evq[p]]]

\* The paths a write made, changed or removed.
Touched(d, e) == {p \in AllPaths : d[p] # e[p]}

\* downloadFile of a folder, past getPaths (r): every path is ignored, then
\* made; a directory that is made gives an event, one that exists gives none.
IgnFolderMade(r, st) ==
  /\ ~st.err
  /\ Becomes(st)
  /\ ig' = Emit(Ignore([ig EXCEPT !.calls = @ + 1], Range(r.ret)),
                Touched(disk, st.disk), "own")

IgnFolder(id) ==
  /\ ig.at = "idle"
  /\ ig.calls < MaxIgnoreCalls
  /\ Has(fileInfo, id)
  /\ fileInfo[id].folder
  /\ ~ShouldIgnoreFile(fileInfo[id])
  /\ \E r \in {GetPaths(Engine, fileInfo[id], Fuel)} :
       /\ r.ret # <<>>
       /\ IgnFolderMade(r, MkdirEach(r.st, r.ret, TRUE))
  /\ UNCHANGED ignFrame

\* downloadFile of a file, past getPaths (r) and mkdirp (st): when savePath
\* holds the content the other paths are copied to, each after an ignore;
\* otherwise tryTwice calls fn, which ignores savePath and requests the
\* content.
IgnFileAt(id, r, st) ==
  /\ ~st.err
  /\ IF st.disk[Head(r.ret)] = fileInfo[id].md5
       THEN /\ \E cp \in {CopyEach(st, Head(r.ret), Tail(r.ret))} :
                 /\ ~cp.err
                 /\ Becomes(cp)
            /\ ig' = Emit(Ignore([ig EXCEPT !.calls = @ + 1],
                                 Range(Tail(r.ret))),
                          Touched(disk, st.disk) \cup Range(Tail(r.ret)),
                          "own")
       ELSE /\ Becomes(st)
            /\ ig' = Emit(Ignore([ig EXCEPT !.calls = @ + 1, !.at = "first",
                                            !.id = id],
                                 {Head(r.ret)}),
                          Touched(disk, st.disk), "own")

IgnFile(id) ==
  /\ ig.at = "idle"
  /\ ig.calls < MaxIgnoreCalls
  /\ Has(fileInfo, id)
  /\ ~fileInfo[id].folder
  /\ ~ShouldIgnoreFile(fileInfo[id])
  /\ \E r \in {GetPaths(Engine, fileInfo[id], Fuel)} :
       /\ r.ret # <<>>
       /\ IgnFileAt(id, r, Mkdirp(r.st, Dirname(Head(r.ret)), {}))
  /\ UNCHANGED ignFrame

\* The request ends: the temporary file is renamed onto savePath, the other
\* paths are copied to, each after an ignore.
IgnGetEndAt(r, st) ==
  /\ ~st.err
  /\ Becomes(st)
  /\ ig' = Emit(Ignore([ig EXCEPT !.at = "idle"], Range(Tail(r.ret))),
                Range(r.ret), "own")

IgnGetEnd ==
  /\ ig.at \in {"first", "second"}
  /\ Has(remote, ig.id)
  /\ \E r \in {GetPaths(Engine, fileInfo[ig.id], Fuel)} :
       IgnGetEndAt(r, CopyEach(FsWrite(r.st, Head(r.ret), remote[ig.id].md5,
                                       {Head(r.ret)}),
                               Head(r.ret), Tail(r.ret)))
  /\ UNCHANGED ignFrame

\* The first request fails with ECONNRESET: after two seconds tryTwice calls
\* fn again, which ignores savePath again and requests the content.
IgnGetReset ==
  /\ ig.at = "first"
  /\ \E r \in {GetPaths(Engine, fileInfo[ig.id], Fuel)} :
       ig' = Ignore([ig EXCEPT !.at = "second"], {Head(r.ret)})
  /\ UNCHANGED <<fileInfo, paths, parentInfoCache, disk, bare, ignFrame>>

\* The first request fails with an other error, or the second fails:
\* tryTwice throws, and downloadFile with it.
IgnGetFail ==
  /\ ig.at \in {"first", "second"}
  /\ ig' = [ig EXCEPT !.at = "idle"]
  /\ UNCHANGED <<fileInfo, paths, parentInfoCache, disk, bare, ignFrame>>

\* removeFileLocally(id): every path of the record that exists is ignored
\* and removed, with what is below it.
IgnRemoved(r, x) ==
  /\ ~x.st.err
  /\ Becomes(x.st)
  /\ ig' = Emit(Ignore([ig EXCEPT !.calls = @ + 1],
                       {p \in Range(r.ret) : disk[p] # "none"}),
                Touched(disk, x.st.disk), "own")

IgnRemove(id) ==
  /\ ig.at = "idle"
  /\ ig.calls < MaxIgnoreCalls
  /\ Has(fileInfo, id)
  /\ id # rootId
  /\ \E r \in {GetPaths(Engine, fileInfo[id], Fuel)} :
       /\ r.ret # <<>>
       /\ IgnRemoved(r, Removed(r, fileInfo[id]))
  /\ UNCHANGED ignFrame

\* The user writes new content to a file of the folder.
UserWrite(p) ==
  /\ ig.edits < MaxUserWrites
  /\ IsFile(disk[p])
  /\ disk[p] # "m3"
  /\ disk' = [disk EXCEPT ![p] = "m3"]
  /\ ig' = Emit([ig EXCEPT !.edits = @ + 1], {p}, "user")
  /\ UNCHANGED <<fileInfo, paths, parentInfoCache, bare, ignFrame>>

\* The watcher sees the next event of path p: it is dropped, and a token of
\* p consumed, when the registry holds p; otherwise it is emitted.
WatcherSees(p) ==
  /\ ig.evq[p] # <<>>
  /\ ig' = IF ig.tokens[p] > 0
             THEN [ig EXCEPT !.evq[p] = Tail(@), !.tokens[p] = @ - 1,
                             !.lost = IF Head(ig.evq[p]) = "user"
                                        THEN @ + 1 ELSE @]
             ELSE [ig EXCEPT !.evq[p] = Tail(@)]
  /\ UNCHANGED <<fileInfo, paths, parentInfoCache, disk, bare, ignFrame>>

NextIgnore ==
  \/ \E id \in Ids : IgnFolder(id)
  \/ \E id \in Ids : IgnFile(id)
  \/ IgnGetEnd
  \/ IgnGetReset
  \/ IgnGetFail
  \/ \E id \in Ids : IgnRemove(id)
  \/ \E p \in AllPaths : UserWrite(p)
  \/ \E p \in AllPaths : WatcherSees(p)

SpecIgnore == InitIgnore /\ [][NextIgnore]_vars

\* The engine is between two calls and the watcher has seen every event the
\* engine's writes caused.
OwnEventsSeen ==
  /\ ig.at = "idle"
  /\ \A p \in AllPaths : "own" \notin Range(ig.evq[p])

\* C36: every watcher.ignore(path) is matched by exactly one event of the
\* engine's own write to that path: once the watcher has seen the engine's
\* events the registry holds no token, and no event of the user's is ever
\* dropped.
C36_IgnoreTokensMatched ==
  /\ OwnEventsSeen => \A p \in AllPaths : ig.tokens[p] = 0
  /\ ig.lost = 0

\* ===================================================== claims on save()
\* C37: when a save() call returns, the checkpoint holds the state of a
\* moment that is not before the call began, also when the call found
\* another save in flight: the save() a window task calls after its change
\* was applied returns with that change in the checkpoint.
C37_SaveCoversCaller ==
  [][\A s \in Slots :
       (pc[s] \in {"sv_wait", "sv_update"} /\ pc'[s] = "t_done")
         => tchg[s] \in db'.applied]_vars

\* ================================================================== start()
\* start() called more than once, its calls failing: the engine has loaded
\* and found no checkpoint.
InitStart ==
  /\ InitStoreRest
  /\ InitQueueVars
  /\ InitCallVars
  /\ InitReconVars
  /\ loaded = TRUE
  /\ loading = FALSE
  /\ pc = [InitPc EXCEPT !["load"] = "l_done"]

\* What the steps of this section leave alone.
startFrame == <<queueVars, reconVars, notifyVars, batchVars, retryVars,
                pollVars, watchVars, upd, ig, fetched, applied,
                changesToExecute, loaded, loading, closed,
                handlingRemoteChange, tchg, snap, obj, restarts, localLeft>>

\* start() is called and is past finishLoading: the assertion throws when
\* syncing is set; otherwise syncing = true and getFileInfo("root") is
\* issued.
StartCalled(k) ==
  /\ sc[k].at = "none"
  /\ loaded
  /\ IF syncing
       THEN /\ sc' = [sc EXCEPT ![k].at = "rejected"]
            /\ UNCHANGED syncing
       ELSE /\ syncing' = TRUE
            /\ sc' = [sc EXCEPT ![k].at = "root", ![k].was = synced]
  /\ UNCHANGED <<db, srv, changeToken, saving, synced, watchingChanges, hasId,
                 savedOnce, changesSinceSave, pc, startFrame>>

\* The root record is known; startWatchingChanges() returns at once when a
\* token is held and asks for the start page token otherwise.
StartGotRoot(k) ==
  /\ sc[k].at = "root"
  /\ sc' = [sc EXCEPT ![k].at = IF changeToken # 0 THEN "walk" ELSE "token"]
  /\ UNCHANGED <<db, srv, changeToken, saving, synced, syncing,
                 watchingChanges, hasId, savedOnce, changesSinceSave, pc,
                 startFrame>>

\* startWatchingChanges(): getStartPageToken answers.
StartGotToken(k) ==
  /\ sc[k].at = "token"
  /\ \E n \in srv..MaxChanges :
       /\ srv' = n
       /\ changeToken' = IF changeToken = 0 THEN n + 1 ELSE changeToken
  /\ sc' = [sc EXCEPT ![k].at = "walk"]
  /\ UNCHANGED <<db, saving, synced, syncing, watchingChanges, hasId,
                 savedOnce, changesSinceSave, pc, startFrame>>

\* The tree walk, computePaths and ParallelMapFlow are through:
\* syncing = false, synced = true, then save().
StartWalked(k) ==
  /\ sc[k].at = "walk"
  /\ syncing' = FALSE
  /\ synced' = TRUE
  /\ sc' = [sc EXCEPT ![k].at = "sv_enter"]
  /\ UNCHANGED <<db, srv, changeToken, saving, watchingChanges, hasId,
                 savedOnce, changesSinceSave, pc, startFrame>>

\* A call the initial sync awaits throws: the catch block resets syncing
\* and throws the error again.
StartThrows(k) ==
  /\ sc[k].at \in {"root", "token", "walk"}
  /\ syncing' = FALSE
  /\ sc' = [sc EXCEPT ![k].at = "failed"]
  /\ UNCHANGED <<db, srv, changeToken, saving, synced, watchingChanges, hasId,
                 savedOnce, changesSinceSave, pc, startFrame>>

\* The save() of start(), past finishLoading: another save is in flight and
\* the call only waits for it, or saving is taken.
StartSaveEnter(k) ==
  /\ sc[k].at = "sv_enter"
  /\ IF Busy
       THEN /\ sc' = [sc EXCEPT ![k].at = "sv_wait"]
            /\ UNCHANGED saving
       ELSE /\ saving' = TRUE
            /\ sc' = IF hasId
                       THEN [sc EXCEPT ![k].at = "sv_update",
                                       ![k].snap = SaveObject]
                       ELSE [sc EXCEPT ![k].at = "sv_insert"]
  /\ UNCHANGED <<db, srv, changeToken, synced, syncing, watchingChanges,
                 hasId, savedOnce, changesSinceSave, pc, startFrame>>

\* finishSaveOperation() returns, and save() and start() with it.
StartSaveWait(k) ==
  /\ sc[k].at = "sv_wait"
  /\ ~Busy
  /\ sc' = [sc EXCEPT ![k].at = "done"]
  /\ UNCHANGED <<db, srv, changeToken, saving, synced, syncing,
                 watchingChanges, hasId, savedOnce, changesSinceSave, pc,
                 startFrame>>

\* db.insert answers; the saveObject is built and db.update issued.
StartSaveInsert(k) ==
  /\ sc[k].at = "sv_insert"
  /\ db' = InsertedDoc
  /\ hasId' = TRUE
  /\ sc' = [sc EXCEPT ![k].at = "sv_update", ![k].snap = SaveObject]
  /\ UNCHANGED <<srv, changeToken, saving, synced, syncing, watchingChanges,
                 savedOnce, changesSinceSave, pc, startFrame>>

\* db.update answers; bookkeeping, watchChanges(), saving = false; save()
\* returns, and start() with it.
StartSaveUpdate(k) ==
  /\ sc[k].at = "sv_update"
  /\ db' = IF db.exists THEN sc[k].snap ELSE db
  /\ savedOnce' = TRUE
  /\ changesSinceSave' = 0
  /\ WatchChangesCall(pc)
  /\ saving' = FALSE
  /\ sc' = [sc EXCEPT ![k].at = "done", ![k].snap = NoDoc]
  /\ UNCHANGED <<srv, changeToken, synced, syncing, hasId, startFrame>>

\* db.insert or db.update throws: the catch block of save() resets saving,
\* the one of start() resets syncing; the error is thrown again.
StartSaveThrows(k) ==
  /\ sc[k].at \in {"sv_insert", "sv_update"}
  /\ saving' = FALSE
  /\ syncing' = FALSE
  /\ sc' = [sc EXCEPT ![k].at = "failed", ![k].snap = NoDoc]
  /\ UNCHANGED <<db, srv, changeToken, synced, watchingChanges, hasId,
                 savedOnce, changesSinceSave, pc, startFrame>>

NextStart ==
  \/ \E k \in StartCalls : StartCalled(k)
  \/ \E k \in StartCalls : StartGotRoot(k)
  \/ \E k \in StartCalls : StartGotToken(k)
  \/ \E k \in StartCalls : StartWalked(k)
  \/ \E k \in StartCalls : StartThrows(k)
  \/ \E k \in StartCalls : StartSaveEnter(k)
  \/ \E k \in StartCalls : StartSaveWait(k)
  \/ \E k \in StartCalls : StartSaveInsert(k)
  \/ \E k \in StartCalls : StartSaveUpdate(k)
  \/ \E k \in StartCalls : StartSaveThrows(k)

SpecStart == InitStart /\ [][NextStart]_vars

\* The start() calls that have passed the assertion and have neither
\* returned nor thrown.
InStart == {k \in StartCalls : sc[k].at \notin {"none", "rejected", "done",
                                                "failed"}}

\* C39: syncing is true exactly while one start() call is between its
\* assertion and its return or failure; a start() called in that time is
\* rejected and changes neither syncing nor synced; a start() that fails
\* leaves syncing false and synced as it was, and throws.
C39_SyncingWhileStarting ==
  /\ [](syncing <=> Cardinality(InStart) = 1)
  /\ [][\A k \in StartCalls :
          (sc[k].at = "none" /\ sc'[k].at # "none" /\ InStart # {})
            => (sc'[k].at = "rejected" /\ syncing' = syncing
                /\ synced' = synced)]_vars
  /\ [][\A k \in StartCalls :
          (sc[k].at # "failed" /\ sc'[k].at = "failed")
            => (~syncing' /\ synced' = sc[k].was)]_vars

\* ====================================================== counted changes
\* The type handleChange(c) passes to logChange with a true value when it
\* runs on the engine state st, or "none": the known-id branch past
\* storeFileInfo (s1) counts an update when the checksums differ and an
\* addition when the file had no path, the latter with the promise of
\* addFileLocally as the value; changePaths is followed by no logChange.
LogKnown(o, n, oldInfo, newInfo) ==
  IF n.ret = <<>> /\ o.ret = <<>> THEN "none"
  ELSE IF newInfo.md5 # oldInfo.md5 THEN "updated"
  ELSE IF o.ret = <<>> THEN "added"
  ELSE "none"

LogPaths(o, oldInfo, newInfo) ==
  LogKnown(o, GetPaths(o.st, newInfo, Fuel), oldInfo, newInfo)

LogStored(s1, oldInfo, newInfo) ==
  IF NoChange(oldInfo, newInfo) THEN "none"
  ELSE LogPaths(GetPaths(s1, oldInfo, Fuel), oldInfo, newInfo)

LogType(st, c) ==
  IF c.removed \/ c.file.trashed
    THEN (IF RemoveFileLocally(st, c.fileId).ret THEN "removed" ELSE "none")
  ELSE IF ~Has(st.fileInfo, c.fileId)
    THEN (IF AddFileLocally(st, c.file).ret THEN "added" ELSE "none")
  ELSE LogStored(StoreFileInfo(st, c.file, Fuel).st,
                 st.fileInfo[c.fileId], c.file)

\* logChange(type, yesOrNo)
Logged(l, type) ==
  IF type = "none" THEN l ELSE [l EXCEPT ![type] = @ + 1]

\* handleChanges takes the next change of the feed in a window of its own
\* and handleChange runs to its end (r); a call that throws logs nothing.
ChangeHandled(c, r) ==
  /\ Becomes(r.st)
  /\ lastChanges' = IF r.tk.phase = "done"
                      THEN Logged(lastChanges, LogType(Engine, c))
                      ELSE lastChanges
  /\ lastAlone' = IF r.tk.phase = "done" THEN c ELSE NoChangeRecord

ChangeLogged ==
  /\ Idle
  /\ feed # <<>>
  /\ ChangeHandled(Head(feed), HandleChange(Engine, Head(feed)))
  /\ feed' = Tail(feed)
  /\ base' = Engine
  /\ UNCHANGED <<remote, made, tk, dl, tmp, emits, storeVars, queueVars,
                 batchVars, retryVars, pollVars, otherVars>>

NextLog ==
  \/ \E id \in {"F", "a"}, n \in Names : RemoteRename(id, n)
  \/ \E ps \in ParentChoices : RemoteMove(ps)
  \/ RemoteLink
  \/ RemoteEdit
  \/ \E id \in {"F", "a"} : RemoteTrash(id)
  \/ \E id \in {"F", "a"} : RemoteDelete(id)
  \/ \E n \in Names : RemoteCreate(FolderInfo(n))
  \/ \E n \in Names, ps \in ParentChoices : RemoteCreate(FileInfo(n, ps))
  \/ ChangeLogged

SpecLog == InitRecon /\ [][NextLog]_vars

\* The sum of the counters of a summary.
Total(l) == l["added"] + l["removed"] + l["updated"] + l["move to trash"]

\* A change was applied in this step.
Applied == Len(feed') < Len(feed) /\ lastAlone' # NoChangeRecord

\* C40: every applied remote change raises at most one counter of the
\* summary, by one, and one that altered the files of the folder raises
\* exactly one; a file that is new counts as added, new content as updated.
C40_OneCounterPerChange ==
  [][Applied =>
       /\ Total(lastChanges') \in {Total(lastChanges), Total(lastChanges) + 1}
       /\ disk' # disk => Total(lastChanges') = Total(lastChanges) + 1
       /\ (disk' # disk /\ ~Has(fileInfo, Head(feed).fileId))
            => lastChanges'["added"] = lastChanges["added"] + 1
       /\ (disk' # disk /\ Has(fileInfo, Head(feed).fileId)
             /\ ~Head(feed).removed /\ ~Head(feed).file.trashed
             /\ Head(feed).file.md5 # fileInfo[Head(feed).fileId].md5)
            => lastChanges'["updated"] = lastChanges["updated"] + 1]_vars

=========================================================================
